---- MODULE Spec2Model ----
(***************************************************************************)
(* Voice-ingestion pipeline of openclaw: the pipeline worker and the       *)
(* speaker-id retry loop of the audio listener (assemblyai_transcriber.py, *)
(* app.py, speaker_verify.py) and the pipeline orchestrator                *)
(* (pipeline-orchestrator.py), sharing the inbox/, done/, playback/ and    *)
(* curator directories.                                                    *)
(*                                                                         *)
(* A clip is identified by its stem; stems sort by capture time, so clips  *)
(* are the integers 1..NumClips.  A diarized label is abstracted to the    *)
(* voice that speaks under it; a label matches a profile exactly when its  *)
(* voice is enrolled.  Time is a clock 1..MaxClock read by now_iso() for   *)
(* the stage stamps of a job entry, plus two age tests: a WAV older than   *)
(* ORPHAN_AGE_HOURS (orphan cleanup of the orchestrator), and a            *)
(* transcript whose timestamp is older than UNIDENTIFIED_GRACE_HOURS (the  *)
(* grace window, which only sync-transcripts.py reads).                    *)
(*                                                                         *)
(* Spec is the pipeline with every thread running; SpecFair adds the       *)
(* scheduling of the loops; SpecRestart adds restarts of the orchestrator  *)
(* (rebuild_jobs over jobs.json) and the passing of time; SpecTwice runs   *)
(* two cycles over files at rest; SpecLoad is the lazy loader of the       *)
(* speaker encoder (_load_classifier).                                     *)
(*                                                                         *)
(* The parts that keep state of their own are followed apart from the      *)
(* pipeline, one at a time, each from its state after construction:        *)
(* SpecApi (_api_request),                                                 *)
(* SpecThreads (the threads of submit_and_process and the counters of      *)
(* listener_state), SpecCmd (detect_voice_commands and the dispatch),      *)
(* SpecTrack (UnknownSpeakerTracker), SpecIdentify (identify_all_speakers  *)
(* label by label, with embeddings as integer vectors), SpecMerge          *)
(* (update_profile and deduplicate_embeddings), SpecNorm (the norms of the *)
(* embeddings the profile writers store), SpecStore (the profile files,    *)
(* their writers and _load_profiles), SpecStitch (stitch_conversations.py  *)
(* over one day directory), SpecStatus (determine_status over the          *)
(* transcripts a done/ directory may hold) and SpecTree (sync_to_curator   *)
(* over the active curator tree and _pending/).                            *)
(***************************************************************************)
EXTENDS Integers, FiniteSets, Sequences, TLC

\* ---- bounds of the model ------------------------------------------------
NumClips == 1
\* worker threads running at the same time
NumWorkers == 2
\* POLL_TIMEOUT in units of POLL_INTERVAL (360 in the program)
MaxPolls == 2
\* segments of a transcript
NumSegs == 2
\* samples a cluster can hold
MaxSamples == 11
\* the orchestrator's clock runs from 1 to MaxClock
MaxClock == 3
\* calls of identify_all_speakers on one transcript
MaxRuns == 2
\* times at which the profile directory is written
MaxWrites == 4
\* embeddings handed to one profile merge
MaxEmbs == 3
\* transcripts in one day directory of the curator
MaxDay == 3

\* ---- program constants --------------------------------------------------
MIN_TRANSCRIBE_SECONDS == 10
MIN_PLAYBACK_DURATION == 10
max_retries == 10
MAX_RETRIES == 3
\* UnknownSpeakerTracker.min_samples
min_samples == 10
\* UNKNOWN_SPEAKER_MAX_VARIANCE (20.0)
max_variance == 20
\* the self-consistency gate 0.15, in thousandths
MAX_SELF_CONSISTENCY == 150
\* UNKNOWN_SPEAKER_MIN_SAMPLES of prune
PRUNE_MIN_SAMPLES == 3
\* 1.0 s, in half seconds
MIN_SEGMENT_DURATION == 2
\* min_duration of extract_multi_segment_embedding: 1.0 s, in half seconds
min_duration == 2
\* threshold of deduplicate_embeddings: 0.05, in thousandths
dedup_threshold == 50
\* thresholds of the conversation stitcher, in seconds
DEFAULT_GAP_SECONDS == 120
DEFAULT_SPEAKER_GAP_SECONDS == 300

Clips == 1..NumClips
Voices == {"fred"}
\* speaker sets the transcription service may report for a clip
SpeakerSets == SUBSET Voices
\* WAV durations in seconds: below the duration gate, and exactly on it
Durations == {3, 10}
\* the periodic retry thread and one ad-hoc thread (/reidentify, post-label)
RetryThreads == {"periodic", "adhoc"}
\* the threads that call _load_classifier: a pipeline worker and the retry
\* threads
Callers == {"worker"} \cup RetryThreads
\* the daemon threads that save_segment starts on submit_and_process
Workers == 1..NumWorkers
\* assemblyai_submitted, _pending, _completed, _failed
CounterNames == {"submitted", "pending", "completed", "failed"}
\* the diarization labels of a transcript and the names of the profiles
Labels == {"A", "B"}
Names == {"fred", "eve"}

VARIABLES
  inbox,        \* inbox[c]: <stem>.wav is in inbox/
  wavDur,       \* wavDur[c]: duration of the WAV in seconds
  wavOld,       \* wavOld[c]: the WAV's mtime is older than ORPHAN_AGE_HOURS
  playback,     \* playback[c]: <stem>.wav is in playback/
  done,         \* done[c]: the transcript done/<stem>.json (NoTranscript if absent)
  graceOver,    \* graceOver[c]: the transcript's timestamp is older than
                \* UNIDENTIFIED_GRACE_HOURS
  marker,       \* marker[c]: done/<stem>.json.synced exists
  curator,      \* curator[c]: the transcript last written to the curator tree
  profiles,     \* enrolled voices
  speakerIdEnabled, \* SPEAKER_ID_ENABLED
  classifier,   \* the encoder is loaded (_classifier is not None)
  wpc,          \* wpc[c]: position of the clip's pipeline worker
  activeJobs,   \* _jobs: status of the clip's entry in the active-jobs map
  jobs,         \* orchestrator's in-memory manifest
  opc,          \* orchestrator position within scan_once
  otodo,        \* transcripts of the done/ listing not yet reconciled
  ochanged,     \* the flag `changed` of the running cycle
  jobsFile,     \* the manifest file jobs.json
  clock,        \* the time that now_iso() returns to the orchestrator
  lpc,          \* lpc[k]: position of caller k in _load_classifier
  lres,         \* lres[k]: what the caller's last call returned
  lastAttempt,  \* _classifier_last_attempt: "zero", or "recent" when less than
                \* _classifier_retry_interval ago, or "old"
  quiet,        \* nothing but the orchestrator touches the files any more
  ocycles,      \* cycles completed since then, counted up to two
  snap,         \* jobs.json as the first of those cycles left it
  rpc,          \* rpc[t]: position of retry thread t in retry_failed_speaker_id
  rforce,       \* rforce[t]: force_all of the running cycle
  ractive,      \* ractive[t]: active_files snapshot
  rtodo,        \* rtodo[t]: transcripts of the sorted listing not yet visited
  rheld,        \* rheld[t]: the transcript data read for the one being retried
  apc,          \* position of the caller of _api_request
  attempt,      \* the loop variable `attempt` of _api_request
  aresps,       \* what the HTTP attempts of the running call have met so far
  ares,         \* how the last call of _api_request ended
  tpc,          \* tpc[w]: position of worker thread w in submit_and_process
  tread,        \* tread[w]: the counter value the thread has read and not yet
                \* written back
  tid,          \* tid[w]: transcript_id is set
  tjob,         \* tjob[w]: status of the entry the thread put into _jobs
  tpolls,       \* tpolls[w]: poll intervals gone by since the polling began
  counters,     \* the assemblyai_* counters of listener_state
  cpc,          \* position of the command dispatcher (on_transcript_ready)
  ccfg,         \* VERIFY_SPEAKER, VOICE_COMMAND_ALLOWED_SPEAKERS and whether
                \* an audio path is given, for the running call
  csegs,        \* the segments handed to detect_voice_commands
  cverified,    \* verified_speakers
  ccmds,        \* segments of the commands detected and not yet sent
  cdisp,        \* segments of the commands dispatched
  cluster,      \* cluster[e]: number of samples of the unknown-speaker
                \* cluster whose embedding is e (its .npy files)
  cand,         \* the candidate file of the cluster (status "none": no file)
  kpc,          \* kpc[w]: position of thread w in add_sample
  kplan,        \* kplan[w]: the candidate the thread is about to write
  kexisted,     \* kexisted[w]: the candidate file was there when the thread's
                \* call of add_sample began
  iin,          \* what identify_all_speakers is called on: the audio, the
                \* profiles, SPEAKER_ID_ENABLED, the encoder ("loaded" = FALSE
                \* before anything is loaded)
  itr,          \* the transcript data, as the last call returned it
  iruns,        \* calls of identify_all_speakers made on it
  ifirst,       \* the transcript and the tracker as the first call left them
  ucount,       \* ucount[e]: samples in the unknown-speaker cluster that
                \* collects the voice e
  ucand,        \* ucand[e]: that cluster has a candidate file
  mpc,          \* position of the profile merge
  mall,         \* two orderings of one collection of embeddings
  mout,         \* mout[i]: the profile that update_profile writes for mall[i]
  nprof,        \* the embeddings in the profile file of one speaker
                \* (<<>>: no file)
  ncand,        \* avg_embedding of the candidate file ("none": no file)
  nlast,        \* the writer that wrote the profile file last
  sfile,        \* the profile file <name>.json: "absent", "partial" or "whole"
  stmp,         \* the temp file .tmp_<name>.json, likewise
  smtime,       \* the mtimes of the two files (0: no file)
  swrites,      \* the time of the last write to the directory
  swriter,      \* position of the writer of the profile
  sprof,        \* the names in the dict _profiles
  sprofmtime,   \* _profiles_mtime ("none" before the first load)
  sloaded,      \* _loaded
  spc,          \* spc[t]: position of thread t in _load_profiles
  scur,         \* scur[t]: current_files of the thread
  stodo,        \* stodo[t]: files of the second listing not yet read
  ssaw,         \* ssaw[t]: the file that the thread has read half-written
  sret,         \* sret[t]: what the thread's last call returned
  sstable,      \* sstable[t]: the profile file was whole when the call began
                \* and no writer has touched the directory since
  dfiles,       \* the transcripts of one day directory, by timestamp
  drun,         \* the thresholds of the last stitch_day that wrote the day
  qjob,         \* a transcript read from done/ and the job status derived from it
  ktree         \* the curator files of the active tree and of _pending/, by name

vars == <<inbox, wavDur, wavOld, playback, done, graceOver, marker, curator,
          profiles, speakerIdEnabled, classifier, wpc, activeJobs, jobs,
          opc, otodo, ochanged, jobsFile, clock, quiet, ocycles, snap,
          lpc, lres, lastAttempt,
          rpc, rforce, ractive, rtodo, rheld,
          apc, attempt, aresps, ares,
          tpc, tread, tid, tjob, tpolls, counters,
          cpc, ccfg, csegs, cverified, ccmds, cdisp,
          cluster, cand, kpc, kplan, kexisted,
          iin, itr, iruns, ifirst, ucount, ucand,
          mpc, mall, mout,
          nprof, ncand, nlast,
          sfile, stmp, smtime, swrites, swriter, sprof, sprofmtime, sloaded, spc, scur, stodo, ssaw, sret, sstable,
          dfiles, drun,
          qjob,
          ktree>>

fsVars == <<inbox, wavDur, wavOld, playback, done, graceOver, marker, curator>>
workerVars == <<wpc, activeJobs>>
orchVars == <<jobs, opc, otodo, ochanged, jobsFile>>
retryVars == <<rpc, rforce, ractive, rtodo, rheld>>
twiceVars == <<quiet, ocycles, snap>>
loadVars == <<lpc, lres, lastAttempt>>
apiVars == <<apc, attempt, aresps, ares>>
\* the state of the components that are followed on their own
threadVars == <<tpc, tread, tid, tjob, tpolls, counters>>
cmdVars == <<cpc, ccfg, csegs, cverified, ccmds, cdisp>>
trackVars == <<cluster, cand, kpc, kplan, kexisted>>
identVars == <<iin, itr, iruns, ifirst, ucount, ucand>>
mergeVars == <<mpc, mall, mout>>
normVars == <<nprof, ncand, nlast>>
storeVars == <<sfile, stmp, smtime, swrites, swriter, sprof, sprofmtime, sloaded, spc, scur, stodo, ssaw, sret, sstable>>
stitchVars == <<dfiles, drun>>
statusVars == <<qjob>>
treeVars == <<ktree>>
libVars == <<apiVars, threadVars, cmdVars, trackVars, identVars, mergeVars,
            normVars,
            storeVars,
            stitchVars,
            statusVars,
            treeVars>>
\* the state of the pipeline
pipeVars == <<fsVars, profiles, speakerIdEnabled, classifier, workerVars,
              orchVars, retryVars, clock, twiceVars, loadVars>>
\* what the steps of one component leave alone
notApi == <<pipeVars, threadVars, cmdVars, trackVars, identVars, mergeVars,
    normVars,
    storeVars,
    stitchVars,
    statusVars,
    treeVars>>
notThread == <<pipeVars, apiVars, cmdVars, trackVars, identVars, mergeVars,
    normVars,
    storeVars,
    stitchVars,
    statusVars,
    treeVars>>
notCmd == <<pipeVars, apiVars, threadVars, trackVars, identVars, mergeVars,
    normVars,
    storeVars,
    stitchVars,
    statusVars,
    treeVars>>
notTrack == <<pipeVars, apiVars, threadVars, cmdVars, identVars, mergeVars,
    normVars,
    storeVars,
    stitchVars,
    statusVars,
    treeVars>>
notIdent == <<pipeVars, apiVars, threadVars, cmdVars, trackVars, mergeVars,
    normVars,
    storeVars,
    stitchVars,
    statusVars,
    treeVars>>
notMerge == <<pipeVars, apiVars, threadVars, cmdVars, trackVars, identVars,
    normVars,
    storeVars,
    stitchVars,
    statusVars,
    treeVars>>
notNorm == <<pipeVars, apiVars, threadVars, cmdVars, trackVars,
    identVars, mergeVars,
    storeVars,
    stitchVars,
    statusVars,
    treeVars>>
notStore == <<pipeVars, apiVars, threadVars, cmdVars, trackVars,
    identVars, mergeVars, normVars,
    stitchVars,
    statusVars,
    treeVars>>
notStitch == <<pipeVars, apiVars, threadVars, cmdVars, trackVars,
    identVars, mergeVars, normVars, storeVars,
    statusVars,
    treeVars>>
notStatus == <<pipeVars, apiVars, threadVars, cmdVars, trackVars,
    identVars, mergeVars, normVars, storeVars,
    stitchVars,
    treeVars>>
notTree == <<pipeVars, apiVars, threadVars, cmdVars, trackVars,
    identVars, mergeVars, normVars, storeVars,
    stitchVars, statusVars>>

\* ---- embeddings ---------------------------------------------------------
\* An embedding is a vector with integer coordinates and integer norm n (two
\* dimensions stand for the 192 of the encoder), so that cosines are exact.
Vec ==
  [e0 |-> [x |-> 5, y |-> 0, n |-> 5],
   e2 |-> [x |-> 3, y |-> 4, n |-> 5],
   loud |-> [x |-> 50, y |-> 0, n |-> 50],
   p0 |-> [x |-> 25, y |-> 0, n |-> 25],
   p1 |-> [x |-> 24, y |-> 7, n |-> 25],
   p2 |-> [x |-> 20, y |-> 15, n |-> 25]]
Dims == 2
Dot(a, b) == Vec[a].x * Vec[b].x + Vec[a].y * Vec[b].y
\* cosine distance 1 - a.b / (|a| |b|), in thousandths
CosDist(a, b) ==
  ((Vec[a].n * Vec[b].n - Dot(a, b)) * 1000) \div (Vec[a].n * Vec[b].n)

\* the embeddings that the samples of the cluster are drawn from
TrackEmbs == {"e0", "e2", "loud"}

RECURSIVE SumF(_, _)
SumF(f, S) ==
  IF S = {} THEN 0
  ELSE LET x == CHOOSE y \in S : TRUE IN f[x] + SumF(f, S \ {x})

\* the candidate file is absent
NoCandidate ==
  [status |-> "none", num_samples |-> 0, variance |-> 0, self_consistency |-> 0]

\* the voices heard in the audio that identify_all_speakers is given
IdentEmbs == {"e0", "e2"}

\* identify_all_speakers has been called on nothing yet
NoInput ==
  [loaded |-> FALSE, audio |-> [l \in Labels |-> "none"], profs |-> {},
   enabled |-> FALSE, encoder |-> FALSE]

\* transcript data: identified[l] = "" when l is not a key of `identified`;
\* block: the key speaker_identification is present
NoData ==
  [status |-> "none", segs |-> <<>>, block |-> FALSE,
   identified |-> [l \in Labels |-> ""], unidentified |-> {}]

\* the thread has not returned from _load_profiles yet
NoReturn == [returned |-> FALSE, map |-> {}, stable |-> FALSE]

\* no profile file: selfConsistency -1 stands for None
NoProfile == [embeddings |-> <<>>, selfConsistency |-> -1, threshold |-> 0]

\* timestamps of the transcripts of a day, in seconds: with the durations 0
\* and 10 they give gaps of exactly a threshold and of one second more
TimePoints == {0, 130, 131, 251, 440}
\* an empty day directory: the transcripts are kept by timestamp
NoFiles == [t \in {} |-> [duration |-> 0]]
\* stitch_day has not written the day
NoRun == [gap_seconds |-> 0, speaker_gap_seconds |-> 0]

\* audio files with the second of their transcript's timestamp: two clips
\* transcribed within the same second, and one of another second
AudioFiles == {"a.wav", "b.wav", "c.wav"}
SecondOf == [a \in AudioFiles |-> IF a = "c.wav" THEN 2 ELSE 1]
\* an empty directory of the curator tree: the files are kept by name, where
\* <<s, 0>> is HH-MM-SS-diarized.json of second s and <<s, k>> is
\* HH-MM-SS-diarized-k.json
NoCuratorFiles == [n \in {} |-> [audioPath |-> ""]]

\* ---- transcripts --------------------------------------------------------
\* status "none" stands for "no file"; aaiStatus is assemblyai.status, which
\* _convert_response never sets; ts is the field "timestamp", the time at
\* which the worker built the transcript.
NoTranscript ==
  [status |-> "none", segs |-> {}, ident |-> {}, unid |-> {}, retry |-> 0,
   err |-> "", dur |-> 0, aaiStatus |-> "", ts |-> 0]

\* no transcript read yet; status "none": determine_status has not returned
NoDerived == [data |-> NoTranscript, status |-> "none"]

SkipTranscript ==
  [NoTranscript EXCEPT !.status = "skipped_too_short", !.ts = clock]

ConvertResponse(S, d) ==
  [NoTranscript EXCEPT !.status = "transcribed", !.segs = S, !.dur = d,
                       !.ts = clock]

\* identify_all_speakers: outcome for transcript tr with the encoder loaded or
\* not; audioOk is "the WAV can be read" (extract_embedding returns None for
\* every label otherwise, so no label is matched)
identify_all_speakers(tr, loaded, audioOk) ==
  IF ~speakerIdEnabled
    THEN [tr EXCEPT !.status = "complete_no_speaker_id"]
  ELSE IF ~loaded
    THEN [tr EXCEPT !.status = "speaker_id_failed", !.err = "encoder_not_available"]
  ELSE IF tr.segs = {}
    THEN tr
  ELSE [tr EXCEPT !.ident = IF audioOk THEN tr.segs \cap profiles ELSE {},
                  !.unid = IF audioOk THEN tr.segs \ profiles ELSE tr.segs,
                  !.status = "complete"]

\* _run_speaker_identification: the worker's wrapper
RunSpeakerIdentification(tr, loaded, audioOk) ==
  LET r == identify_all_speakers(tr, loaded, audioOk)
  IN IF r.status = "transcribed" THEN [r EXCEPT !.status = "complete"] ELSE r

\* get_duration of the orchestrator
get_duration(tr) == tr.dur

\* ---- orchestrator: job entries -------------------------------------------
\* the stage timestamps of an entry; 0 stands for None
StageNames == <<"ingested", "transcribed", "speaker_id", "curator_synced">>

NoStages == [n \in {StageNames[i] : i \in 1..Len(StageNames)} |-> 0]

NoJob ==
  [status |-> "none", pipelineStatus |-> "", unid |-> {}, error |-> "",
   playbackFile |-> FALSE, curatorPath |-> FALSE, stages |-> NoStages]

\* stages[name] = now_iso()
Stamp(stages, name) == [stages EXCEPT ![name] = clock]

QueuedJob == [NoJob EXCEPT !.status = "queued", !.stages = Stamp(NoStages, "ingested")]

\* stages.get(name) is set
IsSet(stages, name) == stages[name] # 0

\* stages["ingested"] = data.get("timestamp") or now_iso(), if not set
\* (lines 158-159)
StampIngested(stages, tr) ==
  IF IsSet(stages, "ingested") THEN stages
  ELSE IF tr.ts # 0 THEN [stages EXCEPT !["ingested"] = tr.ts]
  ELSE Stamp(stages, "ingested")

\* if not stages.get(name): stages[name] = now_iso() (lines 160-164)
StampIfUnset(stages, name) ==
  IF IsSet(stages, name) THEN stages ELSE Stamp(stages, name)

\* determine_status without the gate on unidentified speakers
determine_status_ungated(tr) ==
  IF tr.status = "skipped_too_short" THEN "skipped"
  ELSE IF tr.status = "transcribed" THEN "speaker_id_pending"
  ELSE IF tr.status = "speaker_id_failed" THEN "speaker_id_failed"
  ELSE IF tr.aaiStatus = "error" THEN "failed"
  ELSE IF tr.status \in {"complete", "complete_no_speaker_id"} THEN "complete"
  ELSE IF tr.status = "" /\ tr.segs # {} THEN "complete"
  ELSE "processing"

\* determine_status (lines 93-127)
determine_status(tr) ==
  IF tr.status = "skipped_too_short" THEN "skipped"
  ELSE IF tr.status = "transcribed" THEN "speaker_id_pending"
  ELSE IF tr.status = "speaker_id_failed" THEN "speaker_id_failed"
  ELSE IF tr.aaiStatus = "error" THEN "failed"
  ELSE IF tr.status \in {"complete", "complete_no_speaker_id"}
    THEN (IF tr.unid # {} THEN "pending_curator" ELSE "complete")
  ELSE IF tr.status = "" /\ tr.segs # {} THEN "complete"
  ELSE "processing"

\* build_job_entry(stem, data, existing); inPlayback is playback/<stem>.wav exists
build_job_entry(tr, existing, inPlayback) ==
  LET entry == IF existing = NoJob THEN NoJob ELSE existing
      ingested == StampIngested(entry.stages, tr)
      transcribed == IF tr.aaiStatus = "completed"
                       THEN StampIfUnset(ingested, "transcribed") ELSE ingested
      speaker_id ==
        IF tr.status \in {"complete", "complete_no_speaker_id", "speaker_id_failed"}
          THEN StampIfUnset(transcribed, "speaker_id") ELSE transcribed
  IN [entry EXCEPT !.status = determine_status(tr),
                   !.pipelineStatus = tr.status,
                   !.unid = tr.unid,
                   !.error = tr.err,
                   !.stages = speaker_id,
                   !.playbackFile = inPlayback]

\* rebuild_jobs without the scan of the synced markers
rebuild_entry_unmarked(e, tr, inInbox, inPlayback, hasMarker) ==
  LET fromDone == IF tr.status # "none" THEN build_job_entry(tr, e, inPlayback) ELSE e
      fromInbox == IF inInbox /\ fromDone = NoJob THEN QueuedJob ELSE fromDone
  IN IF inPlayback /\ fromInbox # NoJob
       THEN [fromInbox EXCEPT !.playbackFile = TRUE] ELSE fromInbox

\* rebuild_jobs for one stem (lines 440-481): e is the entry of jobs.json
rebuild_entry(e, tr, inInbox, inPlayback, hasMarker) ==
  LET fromDone == IF tr.status # "none" THEN build_job_entry(tr, e, inPlayback) ELSE e
      fromInbox == IF inInbox /\ fromDone = NoJob THEN QueuedJob ELSE fromDone
      withPlayback == IF inPlayback /\ fromInbox # NoJob
                        THEN [fromInbox EXCEPT !.playbackFile = TRUE] ELSE fromInbox
  IN IF hasMarker /\ withPlayback # NoJob /\ withPlayback.status = "complete"
       THEN [withPlayback EXCEPT !.status = "curator_synced"]
       ELSE withPlayback

\* old_status of scan_once (line 342).  build_job_entry has by then updated
\* `existing` in place (entry = existing or {...}; entry["status"] = status),
\* so existing.get("status") reads the status just derived.
OldStatus(existing, newEntry) ==
  IF existing = NoJob THEN "none" ELSE newEntry.status

\* sync_to_curator returns None when the transcript has no text
HasText(tr) == tr.segs # {}

TypeOK ==
  /\ inbox \in [Clips -> BOOLEAN]
  /\ playback \in [Clips -> BOOLEAN]
  /\ marker \in [Clips -> BOOLEAN]
  /\ profiles \subseteq Voices
  /\ \A c \in Clips : done[c].retry \in 0..(max_retries + 1)

\* The components are followed one at a time.  In a specification that
\* follows component `on`, the variables of that component start in the
\* state after construction (no request made, no thread started, no file
\* written) and those of the other components, which no step of the
\* specification reads or writes, hold "off".
InitLib(on) ==
  /\ apc = IF on = "api" THEN "idle" ELSE "off"
  /\ attempt = IF on = "api" THEN 0 ELSE "off"
  /\ aresps = IF on = "api" THEN <<>> ELSE "off"
  /\ ares = IF on = "api" THEN "none" ELSE "off"
  /\ tpc = IF on = "threads" THEN [w \in Workers |-> "idle"] ELSE "off"
  /\ tread = IF on = "threads" THEN [w \in Workers |-> 0] ELSE "off"
  /\ tid = IF on = "threads" THEN [w \in Workers |-> FALSE] ELSE "off"
  /\ tjob = IF on = "threads" THEN [w \in Workers |-> "none"] ELSE "off"
  /\ tpolls = IF on = "threads" THEN [w \in Workers |-> 0] ELSE "off"
  /\ counters = IF on = "threads" THEN [k \in CounterNames |-> 0] ELSE "off"
  /\ cpc = IF on = "cmd" THEN "idle" ELSE "off"
  /\ ccfg = IF on = "cmd"
      THEN [verify |-> FALSE, audio |-> FALSE, allowed |-> {}]
      ELSE "off"
  /\ csegs = IF on = "cmd" THEN <<>> ELSE "off"
  /\ cverified = IF on = "cmd" THEN {} ELSE "off"
  /\ ccmds = IF on = "cmd" THEN {} ELSE "off"
  /\ cdisp = IF on = "cmd" THEN {} ELSE "off"
  /\ cluster = IF on = "track" THEN [e \in TrackEmbs |-> 0] ELSE "off"
  /\ cand = IF on = "track" THEN NoCandidate ELSE "off"
  /\ kpc = IF on = "track" THEN [w \in Workers |-> "idle"] ELSE "off"
  /\ kplan = IF on = "track" THEN [w \in Workers |-> NoCandidate] ELSE "off"
  /\ kexisted = IF on = "track" THEN [w \in Workers |-> FALSE] ELSE "off"
  /\ iin = IF on = "identify" THEN NoInput ELSE "off"
  /\ itr = IF on = "identify" THEN NoData ELSE "off"
  /\ iruns = IF on = "identify" THEN 0 ELSE "off"
  /\ ifirst = IF on = "identify"
      THEN [tr |-> NoData, ucount |-> [e \in IdentEmbs |-> 0],
           ucand |-> [e \in IdentEmbs |-> FALSE]]
      ELSE "off"
  /\ ucount = IF on = "identify" THEN [e \in IdentEmbs |-> 0] ELSE "off"
  /\ ucand = IF on = "identify" THEN [e \in IdentEmbs |-> FALSE] ELSE "off"
  /\ mpc = IF on = "merge" THEN "idle" ELSE "off"
  /\ mall = IF on = "merge" THEN <<<<>>, <<>>>> ELSE "off"
  /\ mout = IF on = "merge" THEN <<NoProfile, NoProfile>> ELSE "off"
  /\ nprof = IF on = "norm" THEN <<>> ELSE "off"
  /\ ncand = IF on = "norm" THEN "none" ELSE "off"
  /\ nlast = IF on = "norm" THEN "none" ELSE "off"
  /\ sfile = IF on = "store" THEN "absent" ELSE "off"
  /\ stmp = IF on = "store" THEN "absent" ELSE "off"
  /\ smtime = IF on = "store" THEN [f |-> 0, t |-> 0] ELSE "off"
  /\ swrites = IF on = "store" THEN 0 ELSE "off"
  /\ swriter = IF on = "store" THEN "idle" ELSE "off"
  /\ sprof = IF on = "store" THEN {} ELSE "off"
  /\ sprofmtime = IF on = "store" THEN "none" ELSE "off"
  /\ sloaded = IF on = "store" THEN FALSE ELSE "off"
  /\ spc = IF on = "store" THEN [t \in Workers |-> "idle"] ELSE "off"
  /\ scur = IF on = "store"
      THEN [t \in Workers |-> [f |-> 0, t |-> 0]]
      ELSE "off"
  /\ stodo = IF on = "store" THEN [t \in Workers |-> {}] ELSE "off"
  /\ ssaw = IF on = "store" THEN [t \in Workers |-> "none"] ELSE "off"
  /\ sret = IF on = "store" THEN [t \in Workers |-> NoReturn] ELSE "off"
  /\ sstable = IF on = "store" THEN [t \in Workers |-> FALSE] ELSE "off"
  /\ dfiles = IF on = "stitch" THEN NoFiles ELSE "off"
  /\ drun = IF on = "stitch" THEN NoRun ELSE "off"
  /\ qjob = IF on = "status" THEN NoDerived ELSE "off"
  /\ ktree = IF on = "tree"
      THEN [active |-> NoCuratorFiles, pending |-> NoCuratorFiles,
           phase |-> "legacy"]
      ELSE "off"

\* the pipeline after the start of the listener and of the orchestrator
InitPipe ==
  /\ inbox = [c \in Clips |-> FALSE]
  /\ wavDur = [c \in Clips |-> 0]
  /\ wavOld = [c \in Clips |-> FALSE]
  /\ playback = [c \in Clips |-> FALSE]
  /\ done = [c \in Clips |-> NoTranscript]
  /\ graceOver = [c \in Clips |-> FALSE]
  /\ marker = [c \in Clips |-> FALSE]
  /\ curator = [c \in Clips |-> NoTranscript]
  /\ profiles \in {{}, {"fred"}}
  /\ speakerIdEnabled \in BOOLEAN
  /\ classifier = FALSE
  /\ wpc = [c \in Clips |-> "idle"]
  /\ activeJobs = [c \in Clips |-> "none"]
  /\ jobs = [c \in Clips |-> NoJob]
  /\ opc = "started"
  /\ otodo = {}
  /\ ochanged = FALSE
  /\ jobsFile = [c \in Clips |-> NoJob]
  /\ clock = 1
  /\ lpc = [k \in Callers |-> "idle"]
  /\ lres = [k \in Callers |-> "none"]
  /\ lastAttempt = "zero"
  /\ quiet = FALSE
  /\ ocycles = 0
  /\ snap = [c \in Clips |-> NoJob]
  /\ rpc = [t \in RetryThreads |-> "idle"]
  /\ rforce = [t \in RetryThreads |-> FALSE]
  /\ ractive = [t \in RetryThreads |-> {}]
  /\ rtodo = [t \in RetryThreads |-> {}]
  /\ rheld = [t \in RetryThreads |-> NoTranscript]

InitOf(on) == InitLib(on) /\ InitPipe

\* the pipeline specifications follow no component
Init == InitOf("pipeline")

\* ---- environment ---------------------------------------------------------
\* time passes: the transcript's timestamp becomes older than
\* UNIDENTIFIED_GRACE_HOURS (followed only while some label of the transcript
\* is unidentified: no publication rule reads it otherwise)
GraceExpires(c) ==
  /\ done[c].status # "none" /\ done[c].unid # {} /\ ~graceOver[c]
  /\ graceOver' = [graceOver EXCEPT ![c] = TRUE]
  /\ UNCHANGED <<libVars, clock, twiceVars, loadVars, inbox, wavDur, wavOld, playback, done, marker, curator, profiles,
                 speakerIdEnabled, classifier, workerVars, orchVars, retryVars>>

\* time passes: the mtime of an inbox WAV becomes older than ORPHAN_AGE_HOURS
\* (followed only while the clip has no transcript: the orphan test reads it
\* in no other case).  The orchestrator polls every few seconds, so a WAV of
\* that age has been discovered and has a job entry.
WavAges(c) ==
  /\ inbox[c] /\ ~wavOld[c]
  /\ done[c].status = "none" /\ jobs[c] # NoJob
  /\ wavOld' = [wavOld EXCEPT ![c] = TRUE]
  /\ UNCHANGED <<libVars, clock, twiceVars, loadVars, inbox, wavDur, playback, done, graceOver, marker, curator,
                 profiles, speakerIdEnabled, classifier, workerVars, orchVars,
                 retryVars>>

\* time passes on the orchestrator's clock
Tick ==
  /\ clock < MaxClock
  /\ clock' = clock + 1
  /\ UNCHANGED <<libVars, fsVars, profiles, speakerIdEnabled, classifier, workerVars,
                 orchVars, retryVars, twiceVars, loadVars>>

\* save_segment: the capture writes <stem>.wav into inbox/ and spawns the worker.
\* Stems carry the capture time, so clips arrive in stem order.
Capture(c, d) ==
  /\ wpc[c] = "idle"
  /\ \A b \in Clips : b < c => wpc[b] # "idle"
  /\ inbox' = [inbox EXCEPT ![c] = TRUE]
  /\ wavDur' = [wavDur EXCEPT ![c] = d]
  /\ wavOld' = [wavOld EXCEPT ![c] = FALSE]
  /\ wpc' = [wpc EXCEPT ![c] = "gate"]
  /\ UNCHANGED <<libVars, clock, twiceVars, loadVars, playback, done, graceOver, marker, curator, profiles,
                 speakerIdEnabled, classifier, activeJobs, orchVars, retryVars>>

\* ---- pipeline worker: submit_and_process ----------------------------------

\* the gate skips a clip of exactly MIN_TRANSCRIBE_SECONDS as well
WorkerGateInclusive(c, load) ==
  /\ wpc[c] = "gate"
  /\ IF inbox[c] /\ wavDur[c] <= MIN_TRANSCRIBE_SECONDS
       THEN /\ done' = [done EXCEPT ![c] = SkipTranscript]
            /\ classifier' = (classifier \/ (wavDur[c] >= 1 /\ speakerIdEnabled /\ load))
            /\ wpc' = [wpc EXCEPT ![c] = "end"]
       ELSE /\ wpc' = [wpc EXCEPT ![c] = "upload"]
            /\ UNCHANGED <<done, classifier>>
  /\ UNCHANGED <<libVars, clock, twiceVars, loadVars, inbox, wavDur, wavOld, playback, graceOver, marker, curator, profiles,
                 speakerIdEnabled, activeJobs, orchVars, retryVars>>

\* duration gate (lines 282-304); the duration of a WAV that is gone is None
\* and passes the gate.  A skipped clip of at least one second is
\* still handed to the identifier, whose result is dropped; load is the
\* outcome of the encoder load attempt this may make.
WorkerGate(c, load) ==
  /\ wpc[c] = "gate"
  /\ IF inbox[c] /\ wavDur[c] < MIN_TRANSCRIBE_SECONDS
       THEN /\ done' = [done EXCEPT ![c] = SkipTranscript]
            /\ classifier' = (classifier \/ (wavDur[c] >= 1 /\ speakerIdEnabled /\ load))
            /\ wpc' = [wpc EXCEPT ![c] = "end"]
       ELSE /\ wpc' = [wpc EXCEPT ![c] = "upload"]
            /\ UNCHANGED <<done, classifier>>
  /\ UNCHANGED <<libVars, clock, twiceVars, loadVars, inbox, wavDur, wavOld, playback, graceOver, marker, curator, profiles,
                 speakerIdEnabled, activeJobs, orchVars, retryVars>>

\* upload and submit (lines 311-323); ok = FALSE when a request raises, as
\* the upload does when the WAV is gone
WorkerSubmit(c, ok) ==
  /\ wpc[c] = "upload"
  /\ ok => inbox[c]
  /\ IF ok
       THEN /\ activeJobs' = [activeJobs EXCEPT ![c] = "processing"]
            /\ wpc' = [wpc EXCEPT ![c] = "poll"]
       ELSE /\ wpc' = [wpc EXCEPT ![c] = "end"]
            /\ UNCHANGED activeJobs
  /\ UNCHANGED <<libVars, clock, twiceVars, loadVars, fsVars, profiles, speakerIdEnabled, classifier, orchVars,
                 retryVars>>

\* poll, convert, identify, save (lines 325-335).  S = {} with ok = FALSE is
\* the poll failing; load is the outcome of a load attempt of the encoder.
WorkerTranscribe(c, ok, S, load) ==
  /\ wpc[c] = "poll"
  /\ IF ok
       THEN LET loaded == classifier \/ (speakerIdEnabled /\ load)
            IN /\ classifier' = loaded
               /\ done' = [done EXCEPT ![c] =
                    RunSpeakerIdentification(ConvertResponse(S, wavDur[c]),
                                             loaded, inbox[c])]
               /\ wpc' = [wpc EXCEPT ![c] = "posthook"]
               /\ UNCHANGED activeJobs
       ELSE /\ activeJobs' = [activeJobs EXCEPT ![c] = "failed"]
            /\ wpc' = [wpc EXCEPT ![c] = "end"]
            /\ UNCHANGED <<done, classifier>>
  /\ UNCHANGED <<libVars, clock, twiceVars, loadVars, inbox, wavDur, wavOld, playback, graceOver, marker, curator, profiles,
                 speakerIdEnabled, orchVars, retryVars>>

\* post-hook and accounting (lines 337-366); ok = FALSE when the callback raises
WorkerFinish(c, ok) ==
  /\ wpc[c] = "posthook"
  /\ activeJobs' = [activeJobs EXCEPT ![c] = IF ok THEN "completed" ELSE "failed"]
  /\ wpc' = [wpc EXCEPT ![c] = "end"]
  /\ UNCHANGED <<libVars, clock, twiceVars, loadVars, fsVars, profiles, speakerIdEnabled, classifier, orchVars,
                 retryVars>>

\* ---- orchestrator: scan_once ------------------------------------------------
\* step 1 (lines 310-327): every inbox WAV without an entry becomes queued
OrchDiscover ==
  /\ opc \in {"started", "idle"}
  /\ LET new == {c \in Clips : inbox[c] /\ jobs[c] = NoJob}
     IN /\ jobs' = [c \in Clips |-> IF c \in new THEN QueuedJob ELSE jobs[c]]
        /\ ochanged' = (new # {})
  /\ opc' = "glob"
  /\ UNCHANGED <<libVars, clock, twiceVars, loadVars, fsVars, profiles, speakerIdEnabled, classifier, workerVars,
                 otodo, jobsFile, retryVars>>

\* the listing of done/ that step 2 iterates over (line 331)
OrchGlob ==
  /\ opc = "glob"
  /\ otodo' = {c \in Clips : done[c].status # "none"}
  /\ opc' = "scan"
  /\ UNCHANGED <<libVars, clock, twiceVars, loadVars, fsVars, profiles, speakerIdEnabled, classifier, workerVars,
                 jobs, ochanged, jobsFile, retryVars>>

\* the entry that reaches the transition code of step 2, or NoJob when the
\* iteration takes the `continue` of line 354
ReEvaluated(tr, existing, inPlayback, hasMarker) ==
  LET newEntry == build_job_entry(tr, existing, inPlayback)
      oldStatus == OldStatus(existing, newEntry)
  IN IF existing # NoJob /\ oldStatus = newEntry.status
       THEN (IF oldStatus = "curator_synced" /\ ~hasMarker
               THEN build_job_entry(tr, NoJob, inPlayback)
               ELSE NoJob)
       ELSE newEntry

\* the WAV leaves inbox in this iteration (lines 362-364)
MovesWav(entry, oldStatus, inInbox) ==
  /\ entry.status \notin {"queued", "processing"}
  /\ oldStatus \in {"queued", "processing", "none"}
  /\ inInbox

\* the iteration calls sync_to_curator and it writes a file (lines 377-381)
Publishes(entry, tr, hasMarker) ==
  entry.status = "complete" /\ ~hasMarker /\ HasText(tr)

\* the WAV is copied to playback/ and stays in inbox/
InboxAfterCopy(inInbox, move) == inInbox

\* the WAV in inbox/ after the iteration: shutil.move takes it to playback/
\* (line 368) and unlink deletes a short one (line 371)
InboxAfterMove(inInbox, move) == inInbox /\ ~move

\* sync_to_curator leaves the marker untouched
SyncedMarkerUntouched(hasMarker, pub) == hasMarker

\* the synced marker after the iteration: sync_to_curator touches it right
\* after it has written the curator file (lines 295-299)
SyncedMarker(hasMarker, pub) == hasMarker \/ pub

\* step 2 for one transcript (lines 335-393)
OrchReconcile(c) ==
  /\ opc = "scan"
  /\ c \in otodo
  /\ otodo' = otodo \ {c}
  /\ LET tr == done[c]
         existing == jobs[c]
         newEntry == build_job_entry(tr, existing, playback[c])
         oldStatus == OldStatus(existing, newEntry)
         entry == ReEvaluated(tr, existing, playback[c], marker[c])
     IN IF entry = NoJob
          THEN /\ jobs' = [jobs EXCEPT ![c] = newEntry]
               /\ UNCHANGED <<inbox, wavOld, playback, marker, curator, ochanged>>
          ELSE LET move == MovesWav(entry, oldStatus, inbox[c])
                   keep == move /\ get_duration(tr) >= MIN_PLAYBACK_DURATION
                   pub == Publishes(entry, tr, marker[c])
                   synced == entry.status = "complete" /\ (pub \/ marker[c])
               IN /\ ochanged' = TRUE
                  /\ inbox' = [inbox EXCEPT ![c] = InboxAfterMove(inbox[c], move)]
                  /\ wavOld' = [wavOld EXCEPT ![c] = wavOld[c] /\ inbox'[c]]
                  /\ playback' = [playback EXCEPT ![c] = playback[c] \/ keep]
                  /\ curator' = [curator EXCEPT ![c] = IF pub THEN tr ELSE curator[c]]
                  /\ marker' = [marker EXCEPT ![c] = SyncedMarker(marker[c], pub)]
                  /\ jobs' = [jobs EXCEPT ![c] =
                       [entry EXCEPT
                          !.playbackFile = entry.playbackFile \/ keep,
                          !.curatorPath = entry.curatorPath \/ pub,
                          !.stages = IF pub THEN Stamp(entry.stages, "curator_synced")
                                            ELSE entry.stages,
                          !.status = IF synced THEN "curator_synced" ELSE entry.status]]
  /\ UNCHANGED <<libVars, clock, twiceVars, loadVars, wavDur, done, graceOver, profiles, speakerIdEnabled, classifier,
                 workerVars, opc, jobsFile, retryVars>>

\* the orphan test is made on every inbox WAV, whatever its age
IsOrphanAtAnyAge(inInbox, old, tr) == inInbox /\ tr.status = "none"

\* the orphan test of step 3 (lines 398-403): an inbox WAV without a
\* transcript whose mtime is older than ORPHAN_AGE_HOURS
IsOrphan(inInbox, old, tr) == inInbox /\ tr.status = "none" /\ old

\* jobs.json is written when nothing has changed
SavedManifestInverted(changed, memory, file) == IF changed THEN file ELSE memory

\* jobs.json after the cycle: if changed: save_jobs(jobs) (lines 427-428)
SavedManifest(changed, memory, file) == IF changed THEN memory ELSE file

\* step 3, orphan cleanup (lines 395-411), and step 4: the manifest is saved
\* when the cycle has set `changed` (lines 427-428)
OrchFinish ==
  /\ opc = "scan"
  /\ otodo = {}
  /\ LET orphans == {c \in Clips : IsOrphan(inbox[c], wavOld[c], done[c])}
     IN /\ inbox' = [c \in Clips |-> inbox[c] /\ c \notin orphans]
        /\ wavOld' = [c \in Clips |-> wavOld[c] /\ inbox'[c]]
        /\ jobs' = [c \in Clips |->
                     IF c \in orphans /\ jobs[c] # NoJob
                       THEN [jobs[c] EXCEPT !.status = "failed", !.error = "orphaned"]
                       ELSE jobs[c]]
        /\ jobsFile' = SavedManifest(ochanged \/ orphans # {}, jobs', jobsFile)
  /\ ochanged' = FALSE
  /\ opc' = "idle"
  /\ ocycles' = IF quiet /\ ocycles < 2 THEN ocycles + 1 ELSE ocycles
  /\ snap' = IF quiet /\ ocycles = 0 THEN jobsFile' ELSE snap
  /\ UNCHANGED <<libVars, clock, quiet, loadVars, wavDur, playback, done, graceOver, marker, curator, profiles,
                 speakerIdEnabled, classifier, workerVars, otodo, retryVars>>

\* the orchestrator process is stopped wherever it is and started again:
\* main runs rebuild_jobs (lines 433-485) and then its first scan
Restart ==
  /\ jobs' = [c \in Clips |->
                rebuild_entry(jobsFile[c], done[c], inbox[c], playback[c], marker[c])]
  /\ jobsFile' = jobs'
  /\ opc' = "started"
  /\ otodo' = {}
  /\ ochanged' = FALSE
  /\ UNCHANGED <<libVars, clock, twiceVars, loadVars, fsVars, profiles, speakerIdEnabled, classifier, workerVars,
                 retryVars>>

\* ---- retry loop: retry_failed_speaker_id -------------------------------------
MinOf(S) == CHOOSE x \in S : \A y \in S : x <= y

\* needs_retry (lines 486-493)
NeedsRetry(tr, force) ==
  \/ tr.status \in {"speaker_id_failed", "transcribed"}
  \/ force /\ tr.status = "complete" /\ tr.unid # {}

GiveUp(tr) ==
  [tr EXCEPT !.status = "complete_no_speaker_id", !.err = "max_retries_exceeded"]

\* thread t goes on with the transcripts in rest, or returns (its locals
\* force_all and active_files are gone) when none is left
Continue(t, rest) ==
  IF rest = {}
    THEN /\ rpc' = [rpc EXCEPT ![t] = "idle"]
         /\ rforce' = [rforce EXCEPT ![t] = FALSE]
         /\ ractive' = [ractive EXCEPT ![t] = {}]
    ELSE /\ rpc' = [rpc EXCEPT ![t] = "scan"]
         /\ UNCHANGED <<rforce, ractive>>

\* the encoder check and the active_files snapshot (lines 459-471).  The
\* periodic thread always runs with force_all = False.
RetryBegin(t, force, load) ==
  /\ rpc[t] = "idle"
  /\ t = "periodic" => ~force
  /\ classifier' = (classifier \/ load)
  /\ IF classifier'
       THEN /\ rpc' = [rpc EXCEPT ![t] = "glob"]
            /\ rforce' = [rforce EXCEPT ![t] = force]
            /\ ractive' = [ractive EXCEPT ![t] =
                             {c \in Clips : activeJobs[c] = "processing"}]
       ELSE UNCHANGED <<rpc, rforce, ractive>>
  /\ UNCHANGED <<libVars, clock, twiceVars, loadVars, fsVars, profiles, speakerIdEnabled, workerVars, orchVars,
                 rtodo, rheld>>

\* the sorted listing of done/ (line 473)
RetryGlob(t) ==
  /\ rpc[t] = "glob"
  /\ LET listing == {c \in Clips : done[c].status # "none"}
     IN /\ rtodo' = [rtodo EXCEPT ![t] = listing]
        /\ Continue(t, listing)
  /\ UNCHANGED <<libVars, clock, twiceVars, loadVars, fsVars, profiles, speakerIdEnabled, classifier, workerVars,
                 orchVars, rheld>>

\* one iteration up to the call of the identifier (lines 477-517)
RetryVisit(t) ==
  /\ rpc[t] = "scan"
  /\ LET c == MinOf(rtodo[t])
         data == done[c]
         rest == rtodo[t] \ {c}
         eligible == c \notin ractive[t] /\ NeedsRetry(data, rforce[t])
     IN IF eligible /\ data.retry < max_retries /\ inbox[c]
          THEN /\ rheld' = [rheld EXCEPT ![t] = data]
               /\ rpc' = [rpc EXCEPT ![t] = "identify"]
               /\ UNCHANGED <<done, rtodo, rforce, ractive>>
          ELSE /\ done' = [done EXCEPT ![c] =
                     IF eligible /\ data.retry >= max_retries
                          /\ data.status # "complete_no_speaker_id"
                       THEN GiveUp(data) ELSE data]
               /\ rtodo' = [rtodo EXCEPT ![t] = rest]
               /\ Continue(t, rest)
               /\ UNCHANGED rheld
  /\ UNCHANGED <<libVars, clock, twiceVars, loadVars, inbox, wavDur, wavOld, playback, graceOver, marker, curator, profiles,
                 speakerIdEnabled, classifier, workerVars, orchVars>>

\* the identifier, the atomic write and the marker removal (lines 518-535)
RetryIdentify(t) ==
  /\ rpc[t] = "identify"
  /\ LET c == MinOf(rtodo[t])
         rest == rtodo[t] \ {c}
         data == [rheld[t] EXCEPT !.retry = rheld[t].retry + 1]
     IN /\ done' = [done EXCEPT ![c] = RunSpeakerIdentification(data, TRUE, inbox[c])]
        /\ marker' = [marker EXCEPT ![c] = FALSE]
        /\ rtodo' = [rtodo EXCEPT ![t] = rest]
        /\ Continue(t, rest)
        /\ rheld' = [rheld EXCEPT ![t] = NoTranscript]
  /\ UNCHANGED <<libVars, clock, twiceVars, loadVars, inbox, wavDur, wavOld, playback, graceOver, curator, profiles,
                 speakerIdEnabled, classifier, workerVars, orchVars>>

\* ---- operator --------------------------------------------------------------
\* label_speaker.py: name label v in transcript c by hand, rewrite the
\* transcript, remove the synced marker, and enrol the voice when the audio
\* is still in inbox/ (withProfile = FALSE is --skip-profile)
LabelSpeaker(c, v, withProfile) ==
  /\ done[c].status # "none"
  /\ v \in done[c].segs
  /\ done' = [done EXCEPT ![c] = [done[c] EXCEPT !.ident = done[c].ident \cup {v},
                                                 !.unid = done[c].unid \ {v}]]
  /\ marker' = [marker EXCEPT ![c] = FALSE]
  /\ profiles' = IF withProfile /\ inbox[c] THEN profiles \cup {v} ELSE profiles
  /\ UNCHANGED <<libVars, clock, twiceVars, loadVars, inbox, wavDur, wavOld, playback, graceOver, curator, speakerIdEnabled,
                 classifier, workerVars, orchVars, retryVars>>

\* every thread of the pipeline.  The end of the grace window is not followed
\* here: no step of the pipeline reads it, so it changes no step that Next takes
Next ==
  \/ \E c \in Clips, d \in Durations : Capture(c, d)
  \/ \E c \in Clips, load \in BOOLEAN : WorkerGate(c, load)
  \/ \E c \in Clips, ok \in BOOLEAN : WorkerSubmit(c, ok)
  \/ \E c \in Clips, ok \in BOOLEAN, S \in SpeakerSets, load \in BOOLEAN :
       WorkerTranscribe(c, ok, S, load)
  \/ \E c \in Clips, ok \in BOOLEAN : WorkerFinish(c, ok)
  \/ OrchDiscover
  \/ OrchGlob
  \/ \E c \in Clips : OrchReconcile(c)
  \/ OrchFinish
  \/ \E c \in Clips : WavAges(c)
  \/ \E t \in RetryThreads, force \in BOOLEAN, load \in BOOLEAN : RetryBegin(t, force, load)
  \/ \E t \in RetryThreads : RetryGlob(t)
  \/ \E t \in RetryThreads : RetryVisit(t)
  \/ \E t \in RetryThreads : RetryIdentify(t)
  \/ \E c \in Clips, v \in Voices, p \in BOOLEAN : LabelSpeaker(c, v, p)

Spec == Init /\ [][Next]_vars

\* ==== properties ==============================================================

\* the transitions of the pipeline_status state machine
StateMachine ==
  { <<"none", "skipped_too_short">>, <<"none", "transcribed">>,
    <<"transcribed", "complete">>, <<"transcribed", "complete_no_speaker_id">>,
    <<"transcribed", "speaker_id_failed">>, <<"speaker_id_failed", "complete">>,
    <<"speaker_id_failed", "complete_no_speaker_id">> }

\* a change of the status of a file in done/ follows the state machine: it is
\* one of its transitions, or the worker's first write, which persists the
\* walk (none) -> transcribed -> s that the worker made in memory
FollowsStateMachine(old, new) ==
  \/ <<old, new>> \in StateMachine
  \/ old = "none" /\ <<"none", "transcribed">> \in StateMachine
                  /\ <<"transcribed", new>> \in StateMachine

\* C1: over any interleaving of worker runs, periodic and force_all retry
\* cycles, every change of a transcript's pipeline_status in done/ is a
\* transition of the state machine of the pipeline worker; the status never
\* moves backwards and no other transition occurs.
C1_StatusFollowsStateMachine ==
  [][\A c \in Clips :
       done'[c].status # done[c].status
         => FollowsStateMachine(done[c].status, done'[c].status)]_vars

\* C3: at the end of any orchestrator cycle no clip whose job status is
\* outside {queued, processing} still has its WAV in inbox.
C3_WavLeftInboxAtCycleEnd ==
  \A c \in Clips :
    (opc = "idle" /\ jobs[c] # NoJob /\ jobs[c].status \notin {"queued", "processing"})
      => ~inbox[c]

\* the step writes (or overwrites) the curator file of clip c: publication is
\* the only step that creates the synced marker
WritesCurator(c) == (~marker[c] /\ marker'[c]) \/ curator'[c] # curator[c]

\* C4: whenever the orchestrator writes or overwrites a curator file for a
\* transcript, the transcript's unidentified list is empty or its grace window
\* has expired, and its derived job status is none of pending_curator,
\* speaker_id_pending, speaker_id_failed, skipped.
\* (Where the end of the grace window is not followed, graceOver stays FALSE
\* and the formula asks for the empty list.)
C4_PublishedOnlyWhenIdentified ==
  [][\A c \in Clips :
       WritesCurator(c) =>
         /\ done[c].unid = {} \/ graceOver[c]
         /\ determine_status(done[c]) \notin
              {"pending_curator", "speaker_id_pending", "speaker_id_failed", "skipped"}]_vars

\* C4 witness: a transcript has been published with its speaker identified
C4_Witness ==
  \E c \in Clips :
    /\ curator[c] # NoTranscript /\ marker[c]
    /\ curator[c].status = "complete" /\ curator[c].ident # {}

\* the retry loop has given up on the transcript
GaveUp(tr) ==
  tr.status = "complete_no_speaker_id" /\ tr.err = "max_retries_exceeded"

\* C8: once a transcript's speaker_id_retry_count has reached max_retries and
\* the retry loop has rewritten it as complete_no_speaker_id with error
\* max_retries_exceeded, no interleaving of periodic and force_all retry
\* cycles re-identifies it again: its status and retry count stay as they are.
C8_NeverReidentifiedAfterGiveUp ==
  [][\A c \in Clips :
       GaveUp(done[c]) =>
         /\ done'[c].status = done[c].status
         /\ done'[c].retry = done[c].retry]_vars

\* the transcripts a retry cycle may modify
RetryEligible(tr, force_all) ==
  \/ tr.status = "speaker_id_failed"
  \/ tr.status = "transcribed"
  \/ force_all /\ tr.status = "complete" /\ tr.unid # {}

\* the step is a step of retry thread t
RetryStepOf(t) == rpc'[t] # rpc[t] \/ rtodo'[t] # rtodo[t]

\* C9: a step of a retry cycle changes a transcript or removes its synced
\* marker only if the transcript is at speaker_id_failed or transcribed, or,
\* when the cycle runs with force_all, at complete with a non-empty
\* unidentified list; every other transcript keeps its content, its retry
\* count and its marker.
C9_RetryFrame ==
  [][\A t \in RetryThreads, c \in Clips :
       (RetryStepOf(t) /\ (done'[c] # done[c] \/ marker'[c] # marker[c]))
         => RetryEligible(done[c], rforce[t])]_vars

\* the transcript of clip c as the cycle of thread t read it: the copy it
\* holds while the identifier runs, else the file in done/
ReadBy(t, c) == IF rpc[t] = "identify" THEN rheld[t] ELSE done[c]

\* the frame condition of a retry cycle relative to what the cycle read:
\* whatever it changes, it had read as eligible
RetryFrameAsRead ==
  [][\A t \in RetryThreads, c \in Clips :
       (RetryStepOf(t) /\ (done'[c] # done[c] \/ marker'[c] # marker[c]))
         => RetryEligible(ReadBy(t, c), rforce[t])]_vars

\* the step is a step of some retry thread that rewrites the transcript of c
RetryWrites(c) ==
  (\E t \in RetryThreads : RetryStepOf(t)) /\ done'[c] # done[c]

\* C10: the retry loop never rewrites the transcript of a clip whose entry in
\* the transcriber's active-jobs map is still processing.
C10_NoRetryWhileProcessing ==
  [][\A c \in Clips : RetryWrites(c) => activeJobs[c] # "processing"]_vars

\* retry thread t holds a copy of the transcript of clip c that it has read and
\* not yet written back (between line 478 and the rename of line 528)
Holding(t, c) == rpc[t] = "identify" /\ rtodo[t] # {} /\ MinOf(rtodo[t]) = c

\* C11: at most one task at a time is inside its read-modify-write of a given
\* transcript: two retry cycles (the periodic one and one started by
\* /reidentify or after a labelling) never both hold the same transcript
\* between reading it and renaming the temp file onto it.
C11_OneWriterPerTranscript ==
  \A c \in Clips : \A t1, t2 \in RetryThreads :
    (Holding(t1, c) /\ Holding(t2, c)) => t1 = t2

\* C12: in every reachable state and for every clip, <stem>.wav exists in at
\* most one of inbox/ and playback/.
C12_WavInOnePlace ==
  \A c \in Clips : ~(inbox[c] /\ playback[c])

\* C12 witness: the orchestrator has moved a WAV from inbox/ to playback/
C12_Witness ==
  \E c \in Clips : playback[c] /\ ~inbox[c] /\ jobs[c].playbackFile

\* the step rewrites the transcript of clip c: the write of a retry cycle
\* (lines 523-535) or of the labelling tool, each followed by the removal of
\* the synced marker
RewritesTranscript(c) ==
  \/ \E t \in RetryThreads : Holding(t, c) /\ RetryStepOf(t)
  \/ \E v \in Voices, p \in BOOLEAN : LabelSpeaker(c, v, p)

C15_ManifestSavedEachCycle ==
  opc = "idle" => jobsFile = jobs

RebuiltStatus(tr, hasMarker) ==
  IF determine_status(tr) = "complete" /\ hasMarker
    THEN "curator_synced" ELSE determine_status(tr)

\* C16: after rebuild_jobs at startup every entry of the on-disk manifest is
\* still present, every transcript in done/ has an entry whose status is
\* derived from it, every inbox WAV without an entry is queued, and every
\* entry with derived status complete whose synced marker exists has status
\* curator_synced; the rebuilt manifest is the one on disk.
C16_RebuildPostcondition ==
  [][Restart =>
       /\ jobsFile' = jobs'
       /\ \A c \in Clips :
            /\ jobsFile[c] # NoJob => jobs'[c] # NoJob
            /\ done[c].status # "none" =>
                 jobs'[c].status = RebuiltStatus(done[c], marker[c])
            /\ (done[c].status = "none" /\ jobsFile[c] # NoJob) =>
                 jobs'[c] = jobsFile[c]
            /\ (done[c].status = "none" /\ jobsFile[c] = NoJob /\ inbox[c]) =>
                 jobs'[c].status = "queued"]_vars

\* C16 witness: the orchestrator has just been restarted over a published
\* transcript and has inferred curator_synced from its marker
C16_Witness ==
  /\ opc = "started" /\ jobsFile = jobs
  /\ \E c \in Clips : marker[c] /\ jobs[c].status = "curator_synced"

\* the entry records the orphan cleanup
Orphaned(entry) == entry.status = "failed" /\ entry.error = "orphaned"

\* the step is the end of a cycle in which the orchestrator deletes the inbox
\* WAV of clip c (line 404)
DeletesOrphan(c) ==
  opc = "scan" /\ opc' = "idle" /\ inbox[c] /\ ~inbox'[c]

Ordered(stages) ==
  \A i, j \in 1..Len(StageNames) :
    (i < j /\ IsSet(stages, StageNames[i]) /\ IsSet(stages, StageNames[j]))
      => stages[StageNames[i]] <= stages[StageNames[j]]

\* no stage timestamp that is set before and after is earlier after
NotBackwards(old, new) ==
  \A i \in 1..Len(StageNames) :
    (IsSet(old, StageNames[i]) /\ IsSet(new, StageNames[i]))
      => old[StageNames[i]] <= new[StageNames[i]]

\* C18: for every job entry of the manifest, in memory and on disk, the stage
\* timestamps that are set are ordered ingested <= transcribed <= speaker_id
\* <= curator_synced, and no stage timestamp moves backwards from one cycle to
\* the next or across a restart.
C18_StagesMonotone ==
  [][\A c \in Clips :
       /\ Ordered(jobs'[c].stages) /\ Ordered(jobsFile'[c].stages)
       /\ NotBackwards(jobs[c].stages, jobs'[c].stages)
       /\ NotBackwards(jobsFile[c].stages, jobsFile'[c].stages)]_vars

\* the same for what an observer of the orchestrator can see: the stamps in
\* jobs.json over every step, restarts included, and the stamps in memory
\* over every step of a running orchestrator
StagesMonotoneAsSaved ==
  [][\A c \in Clips :
       /\ Ordered(jobs'[c].stages) /\ Ordered(jobsFile'[c].stages)
       /\ NotBackwards(jobsFile[c].stages, jobsFile'[c].stages)
       /\ opc' # "started" => NotBackwards(jobs[c].stages, jobs'[c].stages)]_vars

\* caller k's load attempt is in progress
Loading(k) == lpc[k] = "loading"

\* the attempts are serialized by _classifier_lock
LoadSerialized ==
  \A j, k \in Callers : (Loading(j) /\ Loading(k)) => j = k

\* C20: at most one encoder load attempt is in progress at any time, and a
\* caller that arrives while another caller's attempt is in progress waits
\* for the outcome of that attempt: it does not return NotReady.
C20_LoadSerializedCallersWait ==
  [][/\ \A j, k \in Callers : (Loading(j)' /\ Loading(k)') => j = k
     /\ \A k \in Callers :
          ( /\ lpc[k] = "check" /\ lpc'[k] # "check"
            /\ \E j \in Callers \ {k} : Loading(j) )
          => lpc'[k] = "lock"]_vars

\* caller k's call returns in this step
Returns(k) == lpc[k] # "idle" /\ lpc'[k] = "idle"

\* the cooldown is running: the last attempt started less than
\* _classifier_retry_interval ago and has failed
InCooldown ==
  ~classifier /\ lastAttempt = "recent" /\ \A k \in Callers : ~Loading(k)

\* C21: after a failed load attempt (made at time t, the time the loader
\* records) no new attempt starts before t + retry_interval, and every call
\* in between returns NotReady without attempting a load; after a successful
\* load the cooldown is cleared, no further attempt is ever made and every
\* later call returns the loaded encoder.
C21_CooldownThenLoadedForGood ==
  [][/\ \A k \in Callers :
          (~Loading(k) /\ Loading(k)') => (~classifier /\ lastAttempt # "recent")
     /\ InCooldown =>
          \A k \in Callers : Returns(k) => (lres'[k] = "None" /\ ~classifier')
     /\ classifier =>
          /\ classifier' /\ lastAttempt' = "zero"
          /\ \A k \in Callers : ~Loading(k)'
          /\ \A k \in Callers : Returns(k) => lres'[k] = "classifier"]_vars

\* a failed attempt is less than the interval ago, and a caller that passed
\* the first check before it now comes to the lock
C21_Witness ==
  InCooldown /\ \E k \in Callers : lpc[k] = "lock"

\* the step is the visit of a retry cycle with force_all to the transcript of c
ForceVisits(t, c) ==
  /\ rpc[t] = "scan" /\ rforce[t] /\ rtodo[t] # {} /\ MinOf(rtodo[t]) = c
  /\ RetryStepOf(t)

\* C19: once a voice is enrolled, a retry cycle with force_all re-runs the
\* identifier on every transcript at complete with a non-empty unidentified
\* list that it visits, unless the retry budget is used up or the worker is
\* still active on it, wherever the audio of the clip is by now (inbox/ or
\* playback/).
C19_ForceAllReidentifies ==
  [][\A t \in RetryThreads, c \in Clips :
       ( /\ ForceVisits(t, c)
         /\ profiles # {}
         /\ done[c].status = "complete" /\ done[c].unid # {}
         /\ done[c].retry < max_retries
         /\ c \notin ractive[t]
         /\ inbox[c] \/ playback[c] )
       => rpc'[t] = "identify"]_vars

\* ---- the deployment without operator-triggered retry cycles -------------------
\* The listener's workers, the orchestrator's poll loop and the periodic retry
\* thread each keep running; clips arrive, grace windows run out and the
\* operator labels speakers whenever they choose.
WorkerStep ==
  \/ \E c \in Clips, load \in BOOLEAN : WorkerGate(c, load)
  \/ \E c \in Clips, ok \in BOOLEAN : WorkerSubmit(c, ok)
  \/ \E c \in Clips, ok \in BOOLEAN, S \in SpeakerSets, load \in BOOLEAN :
       WorkerTranscribe(c, ok, S, load)
  \/ \E c \in Clips, ok \in BOOLEAN : WorkerFinish(c, ok)

OrchStep ==
  \/ OrchDiscover
  \/ OrchGlob
  \/ \E c \in Clips : OrchReconcile(c)
  \/ OrchFinish

PeriodicRetryStep ==
  \/ \E load \in BOOLEAN : RetryBegin("periodic", FALSE, load)
  \/ RetryGlob("periodic")
  \/ RetryVisit("periodic")
  \/ RetryIdentify("periodic")

NextFair ==
  \/ \E c \in Clips, d \in Durations : Capture(c, d)
  \/ \E c \in Clips : GraceExpires(c)
  \/ \E c \in Clips : WavAges(c)
  \/ \E c \in Clips, v \in Voices, withProfile \in BOOLEAN : LabelSpeaker(c, v, withProfile)
  \/ WorkerStep
  \/ OrchStep
  \/ PeriodicRetryStep

Fairness ==
  /\ WF_vars(WorkerStep)
  /\ WF_vars(OrchStep)
  /\ WF_vars(PeriodicRetryStep)

SpecFair == Init /\ [][NextFair]_vars /\ Fairness

\* ---- the same deployment with restarts of the orchestrator -------------------
\* The orchestrator process may be stopped at any point of a cycle and started
\* again; the manifest file is what it carries over.  The clock is followed
\* here, where the stage timestamps of the manifest are compared.
NextRestart ==
  \/ NextFair
  \/ Restart
  \/ Tick

SpecRestart == Init /\ [][NextRestart]_vars

\* ---- two cycles in a row over files at rest -----------------------------------
\* From some moment between two cycles on, no capture, worker, retry cycle,
\* operator or restart touches a file and no age threshold is crossed: the
\* orchestrator alone keeps running its cycles.
Quiesce ==
  /\ ~quiet
  /\ opc \in {"started", "idle"}
  /\ quiet' = TRUE
  /\ UNCHANGED <<libVars, fsVars, profiles, speakerIdEnabled, classifier, workerVars,
                 orchVars, retryVars, clock, ocycles, snap, loadVars>>

NextTwice ==
  \/ ~quiet /\ NextRestart
  \/ Quiesce
  \/ quiet /\ OrchStep

SpecTwice == Init /\ [][NextTwice]_vars

\* ---- the encoder loader: _load_classifier --------------------------------------
\* The worker and retry steps above take the outcome of a load attempt as an
\* input; here the loader itself is followed, step by step, for callers on
\* different threads.

\* the caller returns from _load_classifier with result r
Return(k, r) ==
  /\ lpc' = [lpc EXCEPT ![k] = "idle"]
  /\ lres' = [lres EXCEPT ![k] = r]

\* a thread calls _load_classifier
LoadCall(k) ==
  /\ lpc[k] = "idle"
  /\ lpc' = [lpc EXCEPT ![k] = "check"]
  /\ lres' = [lres EXCEPT ![k] = "none"]
  /\ UNCHANGED <<libVars, fsVars, profiles, speakerIdEnabled, classifier, workerVars,
                 orchVars, retryVars, clock, twiceVars, lastAttempt>>

\* the checks made before the lock is taken (lines 96-101)
LoadPreCheck(k) ==
  /\ lpc[k] = "check"
  /\ IF classifier THEN Return(k, "classifier")
     ELSE IF lastAttempt = "recent" THEN Return(k, "None")
     ELSE lpc' = [lpc EXCEPT ![k] = "lock"] /\ UNCHANGED lres
  /\ UNCHANGED <<libVars, fsVars, profiles, speakerIdEnabled, classifier, workerVars,
                 orchVars, retryVars, clock, twiceVars, lastAttempt>>

\* the attempt is started as soon as the lock is held, without the checks
\* made again
LoadAcquireUnchecked(k) ==
  /\ lpc[k] = "lock"
  /\ \A j \in Callers : lpc[j] # "loading"
  /\ lastAttempt' = "recent"
  /\ lpc' = [lpc EXCEPT ![k] = "loading"]
  /\ UNCHANGED lres
  /\ UNCHANGED <<libVars, fsVars, profiles, speakerIdEnabled, classifier, workerVars,
                 orchVars, retryVars, clock, twiceVars>>

\* with _classifier_lock: the checks made again, and the start of the
\* attempt (lines 103-110)
LoadAcquire(k) ==
  /\ lpc[k] = "lock"
  /\ \A j \in Callers : lpc[j] # "loading"
  /\ IF classifier THEN Return(k, "classifier") /\ UNCHANGED lastAttempt
     ELSE IF lastAttempt = "recent" THEN Return(k, "None") /\ UNCHANGED lastAttempt
     ELSE /\ lastAttempt' = "recent"
          /\ lpc' = [lpc EXCEPT ![k] = "loading"]
          /\ UNCHANGED lres
  /\ UNCHANGED <<libVars, fsVars, profiles, speakerIdEnabled, classifier, workerVars,
                 orchVars, retryVars, clock, twiceVars>>

\* the attempt ends (lines 112-157); ok = FALSE when an import or
\* from_hparams raises
LoadFinish(k, ok) ==
  /\ lpc[k] = "loading"
  /\ IF ok
       THEN /\ classifier' = TRUE
            /\ lastAttempt' = "zero"
            /\ Return(k, "classifier")
       ELSE /\ Return(k, "None")
            /\ UNCHANGED <<classifier, lastAttempt>>
  /\ UNCHANGED <<libVars, fsVars, profiles, speakerIdEnabled, workerVars,
                 orchVars, retryVars, clock, twiceVars>>

\* time passes: the last attempt is _classifier_retry_interval ago
CooldownExpires ==
  /\ lastAttempt = "recent"
  /\ lastAttempt' = "old"
  /\ UNCHANGED <<libVars, fsVars, profiles, speakerIdEnabled, classifier, workerVars,
                 orchVars, retryVars, clock, twiceVars, lpc, lres>>

NextLoad ==
  \/ \E k \in Callers : LoadCall(k)
  \/ \E k \in Callers : LoadPreCheck(k)
  \/ \E k \in Callers : LoadAcquire(k)
  \/ \E k \in Callers, ok \in BOOLEAN : LoadFinish(k, ok)
  \/ CooldownExpires

SpecLoad == Init /\ [][NextLoad]_vars

\* the transcript is complete with text and every speaker identified
FullyIdentified(tr) ==
  tr.status = "complete" /\ tr.unid = {} /\ HasText(tr)

\* the clip is published: curator file, synced marker, job at curator_synced
Published(c) ==
  curator[c] # NoTranscript /\ marker[c] /\ jobs[c].status = "curator_synced"

\* C2: a clip that an orchestrator cycle recorded as queued and whose
\* transcript is then complete with every speaker identified is eventually
\* published: curator file written, synced marker created, job at
\* curator_synced.
C2_CompleteEventuallyPublished ==
  \A c \in Clips :
    (jobs[c] # NoJob /\ FullyIdentified(done[c])) ~> Published(c)

\* C5: whenever a previously published clip has no synced marker and its
\* transcript is publishable, a later orchestrator cycle republishes it: the
\* marker exists again and the curator copy is the latest transcript.
C5_RepublishedAfterMarkerRemoved ==
  \A c \in Clips :
    (curator[c] # NoTranscript /\ ~marker[c] /\ FullyIdentified(done[c]))
      ~> (marker[c] /\ curator[c] = done[c])

\* C6: a transcript left at speaker_id_failed whose speakers are all enrolled
\* is, once the encoder has loaded, eventually re-identified and published,
\* and its job reaches curator_synced.
C6_FailedEventuallyPublished ==
  \A c \in Clips :
    (/\ done[c].status = "speaker_id_failed" /\ HasText(done[c])
     /\ done[c].segs \subseteq profiles /\ classifier /\ jobs[c] # NoJob)
      ~> Published(c)

\* C7: a complete transcript whose every speaker is unidentified is published
\* once its grace window has expired, unless a speaker was identified in the
\* meantime.
C7_PublishedAfterGrace ==
  \A c \in Clips :
    (/\ done[c].status = "complete" /\ HasText(done[c])
     /\ done[c].ident = {} /\ done[c].unid # {} /\ graceOver[c])
      ~> (curator[c] # NoTranscript \/ done[c].ident # {})

\* ---- the request wrapper: AssemblyAITranscriber._api_request -------------
\* What one HTTP attempt can meet: a response with a body, HTTPError with
\* code 429, with a code of 500 or more, with any other code, or any other
\* exception raised by urlopen, by the read or by json.loads (timeouts and
\* connection errors among them).
Responses == {"ok", "http429", "http5xx", "http4xx", "exception"}

\* the HTTP errors after which the wrapper goes on (line 119)
RetriedHTTP == {"http429", "http5xx"}

\* what the body of the loop does with the outcome r of attempt number n
\* (lines 113-133)
AfterAttempt(r, n) ==
  IF r = "ok" THEN "return"
  ELSE IF r \in RetriedHTTP THEN "continue"
  ELSE IF r = "http4xx" THEN "raise"
  ELSE IF n < MAX_RETRIES - 1 THEN "continue" ELSE "raise"

\* a caller enters _api_request (lines 98-111)
ApiCall ==
  /\ apc = "idle"
  /\ apc' = "request"
  /\ attempt' = 0
  /\ aresps' = <<>>
  /\ ares' = "none"
  /\ UNCHANGED notApi

\* one pass through the loop: the attempt meets r; after `continue` the
\* loop goes to the next value of range(MAX_RETRIES), and when there is
\* none the function ends without a return statement
ApiAttempt(r) ==
  /\ apc = "request"
  /\ aresps' = Append(aresps, r)
  /\ LET what == AfterAttempt(r, attempt) IN
       CASE what = "return" ->
              apc' = "idle" /\ ares' = "body" /\ UNCHANGED attempt
         [] what = "raise" ->
              apc' = "idle" /\ ares' = "error" /\ UNCHANGED attempt
         [] what = "continue" /\ attempt + 1 < MAX_RETRIES ->
              attempt' = attempt + 1 /\ UNCHANGED <<apc, ares>>
         [] what = "continue" /\ attempt + 1 >= MAX_RETRIES ->
              apc' = "idle" /\ ares' = "None" /\ UNCHANGED attempt
  /\ UNCHANGED notApi

NextApi ==
  \/ ApiCall
  \/ \E r \in Responses : ApiAttempt(r)

SpecApi == InitOf("api") /\ [][NextApi]_vars

\* the call has ended
ApiEnded == apc = "idle" /\ aresps # <<>>

\* every attempt but the last met something the wrapper retries
FurtherAttemptOnlyAfterRetryable ==
  \A i \in 1..(Len(aresps) - 1) : aresps[i] \in RetriedHTTP \cup {"exception"}

\* C22: a call of the request wrapper makes at most max_retries (3) HTTP
\* attempts, makes a further attempt only after HTTP 429, HTTP 5xx or a
\* network error, makes no further attempt after any other 4xx, and ends
\* either by returning the body of a successful response or by failing
\* with an error.
C22_RequestWrapper ==
  /\ Len(aresps) <= MAX_RETRIES
  /\ FurtherAttemptOnlyAfterRetryable
  /\ ApiEnded =>
       /\ ares \in {"body", "error"}
       /\ ares = "body" <=> aresps[Len(aresps)] = "ok"

\* what does hold: the bound on the attempts, the retried outcomes, and an
\* error raised at once on any other 4xx
RequestWrapperAttempts ==
  /\ Len(aresps) <= MAX_RETRIES
  /\ FurtherAttemptOnlyAfterRetryable
  /\ ApiEnded =>
       /\ ares = "body" <=> aresps[Len(aresps)] = "ok"
       /\ aresps[Len(aresps)] = "http4xx" => ares = "error"
       /\ ares = "None" <=>
            (Len(aresps) = MAX_RETRIES /\ aresps[MAX_RETRIES] \in RetriedHTTP)

\* ---- the worker thread: submit_and_process, counters and polling ---------
\* Each `listener_state[k] = listener_state.get(k, 0) + 1` is a read and a
\* write of a plain dict shared by the threads, with no lock: the thread can
\* be suspended between the two.  ASSEMBLYAI_API_KEY is set (the transcriber
\* is not created without it) and the clip is long enough to be submitted.

\* the counter read at each position
ReadOf ==
  [rd_submitted |-> "submitted", rd_pending_inc |-> "pending",
   rd_completed |-> "completed", rd_failed |-> "failed",
   rd_pending_dec |-> "pending"]
\* the position after the read, where the counter is written
WriteOf ==
  [rd_submitted |-> "wr_submitted", rd_pending_inc |-> "wr_pending_inc",
   rd_completed |-> "wr_completed", rd_failed |-> "wr_failed",
   rd_pending_dec |-> "wr_pending_dec"]
\* the counter written at each position, and the position after the write
WrittenAt ==
  [wr_submitted |-> "submitted", wr_pending_inc |-> "pending",
   wr_completed |-> "completed", wr_failed |-> "failed",
   wr_pending_dec |-> "pending"]
AfterWrite ==
  [wr_submitted |-> "rd_pending_inc", wr_pending_inc |-> "upload",
   wr_completed |-> "set_completed", wr_failed |-> "set_failed",
   wr_pending_dec |-> "ended"]

MaxOf(a, b) == IF a >= b THEN a ELSE b

\* the value written back: read + 1, and max(0, read - 1) in the finally
\* clause (line 368)
Written(pos, read) ==
  IF pos = "wr_pending_dec" THEN MaxOf(0, read - 1) ELSE read + 1

\* save_segment starts a thread on submit_and_process; the clip passes the
\* duration gate (lines 268-306)
ThreadStart(w) ==
  /\ tpc[w] = "idle"
  /\ tpc' = [tpc EXCEPT ![w] = "rd_submitted"]
  /\ UNCHANGED <<tread, tid, tjob, tpolls, counters, notThread>>

\* the clip is shorter than MIN_TRANSCRIBE_SECONDS: the thread returns
\* before any of the four counters is touched (lines 283-304)
ThreadSkipsShort(w) ==
  /\ tpc[w] = "idle"
  /\ tpc' = [tpc EXCEPT ![w] = "ended"]
  /\ UNCHANGED <<tread, tid, tjob, tpolls, counters, notThread>>

\* listener_state.get(k, 0)
CounterGet(w) ==
  /\ tpc[w] \in DOMAIN ReadOf
  /\ tread' = [tread EXCEPT ![w] = counters[ReadOf[tpc[w]]]]
  /\ tpc' = [tpc EXCEPT ![w] = WriteOf[tpc[w]]]
  /\ UNCHANGED <<tid, tjob, tpolls, counters, notThread>>

\* listener_state[k] = ...
CounterSet(w) ==
  /\ tpc[w] \in DOMAIN WrittenAt
  /\ counters' = [counters EXCEPT ![WrittenAt[tpc[w]]] = Written(tpc[w], tread[w])]
  /\ tread' = [tread EXCEPT ![w] = 0]
  /\ tpc' = [tpc EXCEPT ![w] = AfterWrite[tpc[w]]]
  /\ UNCHANGED <<tid, tjob, tpolls, notThread>>

\* step 1, _upload_audio (line 313); ok = FALSE when it raises
ThreadUpload(w, ok) ==
  /\ tpc[w] = "upload"
  /\ tpc' = [tpc EXCEPT ![w] = IF ok THEN "submit" ELSE "rd_failed"]
  /\ UNCHANGED <<tread, tid, tjob, tpolls, counters, notThread>>

\* step 2, _submit_transcription, and the entry put into _jobs (lines
\* 316-323)
ThreadSubmit(w, ok) ==
  /\ tpc[w] = "submit"
  /\ IF ok
       THEN /\ tid' = [tid EXCEPT ![w] = TRUE]
            /\ tjob' = [tjob EXCEPT ![w] = "processing"]
            /\ tpc' = [tpc EXCEPT ![w] = "poll"]
       ELSE /\ tpc' = [tpc EXCEPT ![w] = "rd_failed"]
            /\ UNCHANGED <<tid, tjob>>
  /\ UNCHANGED <<tread, tpolls, counters, notThread>>

\* the loop of _poll_transcript never leaves on the clock
PollNeverTimesOut(n) == FALSE

\* the condition that ends the loop of _poll_transcript (line 178):
\* POLL_TIMEOUT has gone by since the polling began
PollTimedOut(n) == n >= MaxPolls

\* step 3, one pass of _poll_transcript (lines 176-188): the loop test and
\* the GET; r is what the GET gives, "raise" when _api_request fails
ThreadPoll(w, r) ==
  /\ tpc[w] = "poll"
  /\ tpc' = [tpc EXCEPT ![w] =
               IF PollTimedOut(tpolls[w]) THEN "rd_failed"
               ELSE IF r = "completed" THEN "stages"
               ELSE IF r \in {"error", "raise"} THEN "rd_failed"
               ELSE "sleep"]
  /\ UNCHANGED <<tread, tid, tjob, tpolls, counters, notThread>>

\* time.sleep(POLL_INTERVAL) (line 189), then the loop test again
ThreadSleep(w) ==
  /\ tpc[w] = "sleep"
  /\ tpolls' = [tpolls EXCEPT ![w] = IF @ < MaxPolls THEN @ + 1 ELSE @]
  /\ tpc' = [tpc EXCEPT ![w] = "poll"]
  /\ UNCHANGED <<tread, tid, tjob, counters, notThread>>

\* steps 4 to 8 (lines 326-347): convert, identify, save, commands, cost;
\* ok = FALSE when one of them raises
ThreadStages(w, ok) ==
  /\ tpc[w] = "stages"
  /\ tpc' = [tpc EXCEPT ![w] = IF ok THEN "rd_completed" ELSE "rd_failed"]
  /\ UNCHANGED <<tread, tid, tjob, tpolls, counters, notThread>>

\* the entry is set to completed (lines 353-354), then the finally clause
ThreadSetCompleted(w) ==
  /\ tpc[w] = "set_completed"
  /\ tjob' = [tjob EXCEPT ![w] = "completed"]
  /\ tpc' = [tpc EXCEPT ![w] = "rd_pending_dec"]
  /\ UNCHANGED <<tread, tid, tpolls, counters, notThread>>

\* the except clause after the counter (lines 361-366), then the finally
\* clause
ThreadSetFailed(w) ==
  /\ tpc[w] = "set_failed"
  /\ tjob' = [tjob EXCEPT ![w] = IF tid[w] THEN "failed" ELSE @]
  /\ tpc' = [tpc EXCEPT ![w] = "rd_pending_dec"]
  /\ UNCHANGED <<tread, tid, tpolls, counters, notThread>>

PollResults == {"processing", "completed", "error", "raise"}

ThreadRun(w) ==
  \/ CounterGet(w)
  \/ CounterSet(w)
  \/ \E ok \in BOOLEAN : ThreadUpload(w, ok)
  \/ \E ok \in BOOLEAN : ThreadSubmit(w, ok)
  \/ \E r \in PollResults : ThreadPoll(w, r)
  \/ ThreadSleep(w)
  \/ \E ok \in BOOLEAN : ThreadStages(w, ok)
  \/ ThreadSetCompleted(w)
  \/ ThreadSetFailed(w)

NextThreads ==
  \/ \E w \in Workers : ThreadStart(w)
  \/ \E w \in Workers : ThreadSkipsShort(w)
  \/ \E w \in Workers : ThreadRun(w)

SpecThreads == InitOf("threads") /\ [][NextThreads]_vars

\* every started thread keeps being scheduled
SpecThreadsFair ==
  SpecThreads /\ \A w \in Workers : WF_vars(ThreadRun(w))

ThreadEnded(w) == tpc[w] = "ended"

\* C23: every pipeline-worker run terminates - the polling ends when the
\* service reports completed or error or when poll_timeout has gone by -
\* and when the worker has ended, the active-jobs entry it registered, if
\* any, is at completed or failed, never at processing.
C23_WorkerTerminates ==
  /\ [](\A w \in Workers :
          ThreadEnded(w) => tjob[w] \in {"none", "completed", "failed"})
  /\ \A w \in Workers : (tpc[w] # "idle") ~> ThreadEnded(w)

\* a worker whose polling ran into the timeout has ended, its entry failed
C23_Witness ==
  \E w \in Workers :
    ThreadEnded(w) /\ tpolls[w] = MaxPolls /\ tjob[w] = "failed"

NoThreadRunning == \A w \in Workers : tpc[w] \in {"idle", "ended"}

\* C24: for any number of workers running at the same time, and whether or
\* not a stage raises: whenever no worker is running, assemblyai_pending is
\* 0 and assemblyai_submitted = assemblyai_completed + assemblyai_failed.
C24_CountersConsistent ==
  NoThreadRunning =>
    /\ counters["pending"] = 0
    /\ counters["submitted"] = counters["completed"] + counters["failed"]

\* what holds of a single thread, whether or not a stage raises
CountersConsistentSingleThread ==
  (NoThreadRunning /\ Cardinality({w \in Workers : tpc[w] # "idle"}) <= 1) =>
    /\ counters["pending"] = 0
    /\ counters["submitted"] = counters["completed"] + counters["failed"]

\* ---- the command dispatcher: on_transcript_ready ---------------------------
\* A segment is its diarization label, its speaker_name ("" when it has
\* none) and whether its text holds a trigger within the first 20 characters
\* followed by at least 3 characters of command (lines 517-538).  Names are
\* compared in lower case (line 509); the model writes them in lower case.
Segments == [speaker : Labels, name : Names \cup {""}, cmd : BOOLEAN]
SegLists == UNION {[1..n -> Segments] : n \in 1..NumSegs}
\* the configurations: VERIFY_SPEAKER, an audio path, the allow-list
Configs == [verify : BOOLEAN, audio : BOOLEAN, allowed : {{}, {"fred"}}]

\* on_transcript_ready is called with the segments of a new transcript
\* (lines 590-597; it returns at once when there are none)
CmdReady(segs, cfg) ==
  /\ cpc = "idle"
  /\ cpc' = "verify"
  /\ csegs' = segs
  /\ ccfg' = cfg
  /\ cverified' = {}
  /\ ccmds' = {}
  /\ cdisp' = {}
  /\ UNCHANGED notCmd

\* verify_speaker_from_file (speaker_verify.py lines 346-393): match[l] is
\* the profile that the voice under label l matches, "" when there is none,
\* when the label has less than 1 s of audio or no embedding; ready is
\* FALSE when no profile is loaded or the encoder is not available
Verified(ready, match, segs) ==
  IF ready
    THEN {match[segs[i].speaker] : i \in DOMAIN segs} \ {""}
    ELSE {}

\* the segments of a verified label are tagged with the name (lines 391-393)
Tagged(ready, match, segs) ==
  [i \in DOMAIN segs |->
     IF ready /\ match[segs[i].speaker] # ""
       THEN [segs[i] EXCEPT !.name = match[segs[i].speaker]]
       ELSE segs[i]]

\* the restriction to named segments is never applied
HasVerifiedNever(segs) == FALSE

\* has_verified (line 498)
HasVerified(segs) == \E i \in DOMAIN segs : segs[i].name # ""

\* the loop of detect_voice_commands (lines 502-540): the segments whose
\* command is returned
Detected(segs, hasVerified, allowed) ==
  {i \in DOMAIN segs :
     /\ ~(hasVerified /\ segs[i].name = "")
     /\ allowed # {} =>
          (IF segs[i].name = "" THEN "unknown" ELSE segs[i].name) \in allowed
     /\ segs[i].cmd}

\* detect_voice_commands (lines 489-542): the verification gate and the scan
CmdDetect(ready, match) ==
  /\ cpc = "verify"
  /\ IF ccfg.verify /\ ccfg.audio
       THEN /\ cverified' = Verified(ready, match, csegs)
            /\ csegs' = Tagged(ready, match, csegs)
            /\ ccmds' = IF cverified' = {} THEN {}
                        ELSE Detected(csegs', HasVerified(csegs'), ccfg.allowed)
       ELSE /\ ccmds' = Detected(csegs, FALSE, ccfg.allowed)
            /\ UNCHANGED <<cverified, csegs>>
  /\ cpc' = "dispatch"
  /\ UNCHANGED <<ccfg, cdisp, notCmd>>

\* dispatch_voice_command for the next command (lines 598-600, 545-587);
\* ok = FALSE when there is no token or the POST fails
CmdDispatch(ok) ==
  /\ cpc = "dispatch" /\ ccmds # {}
  /\ LET i == CHOOSE j \in ccmds : \A k \in ccmds : j <= k IN
       /\ ccmds' = ccmds \ {i}
       /\ cdisp' = IF ok THEN cdisp \cup {i} ELSE cdisp
  /\ UNCHANGED <<cpc, ccfg, csegs, cverified, notCmd>>

\* on_transcript_ready returns
CmdReturn ==
  /\ cpc = "dispatch" /\ ccmds = {}
  /\ cpc' = "idle"
  /\ UNCHANGED <<ccfg, csegs, cverified, ccmds, cdisp, notCmd>>

NextCmd ==
  \/ \E segs \in SegLists, cfg \in Configs : CmdReady(segs, cfg)
  \/ \E ready \in BOOLEAN, match \in [Labels -> Names \cup {""}] :
       CmdDetect(ready, match)
  \/ \E ok \in BOOLEAN : CmdDispatch(ok)
  \/ CmdReturn

SpecCmd == InitOf("cmd") /\ [][NextCmd]_vars

\* C25: with speaker verification enabled and the audio path present, no
\* command is dispatched when verification finds no enrolled speaker in the
\* clip; otherwise every dispatched command was detected in a segment that
\* carries a speaker_name and, when an allow-list is configured, that
\* speaker_name is in the allow-list.
C25_CommandsOnlyFromVerified ==
  (ccfg.verify /\ ccfg.audio /\ cpc # "verify") =>
    /\ cverified = {} => (ccmds = {} /\ cdisp = {})
    /\ \A i \in ccmds \cup cdisp :
         /\ csegs[i].name # ""
         /\ ccfg.allowed # {} => csegs[i].name \in ccfg.allowed

\* a command of a named segment went out while the command of a segment
\* without a name was dropped
C25_Witness ==
  /\ ccfg.verify /\ ccfg.audio /\ cpc = "idle" /\ cdisp # {}
  /\ \E j \in DOMAIN csegs : csegs[j].cmd /\ csegs[j].name = ""

\* ---- the unknown-speaker tracker: UnknownSpeakerTracker ------------------
\* One cluster is followed.  add_sample is called by identify_all_speakers
\* on the worker and retry threads, with no lock around the tracker.

\* number of samples in the bag b
Size(b) == SumF(b, DOMAIN b)
Pairs(n) == (n * (n - 1)) \div 2

\* np.var(embeddings, axis=0).mean(), times Dims * n * n
VarianceTimes(b) ==
  LET n == Size(b)
      sx == SumF([e \in DOMAIN b |-> b[e] * Vec[e].x], DOMAIN b)
      sy == SumF([e \in DOMAIN b |-> b[e] * Vec[e].y], DOMAIN b)
      sxx == SumF([e \in DOMAIN b |-> b[e] * Vec[e].x * Vec[e].x], DOMAIN b)
      syy == SumF([e \in DOMAIN b |-> b[e] * Vec[e].y * Vec[e].y], DOMAIN b)
  IN (n * sxx - sx * sx) + (n * syy - sy * sy)

\* compute_self_consistency: the sum of the pairwise cosine distances, in
\* thousandths (the mean is this sum over Pairs(n))
DistanceSum(b) ==
  SumF([p \in (DOMAIN b) \X (DOMAIN b) |->
          IF p[1] = p[2] THEN 0 ELSE b[p[1]] * b[p[2]] * CosDist(p[1], p[2])],
       (DOMAIN b) \X (DOMAIN b)) \div 2

\* variance > max_variance (lines 553-556)
TooNoisy(n, var) == var > max_variance * Dims * n * n

\* self_consistency is not None and > 0.15 (lines 560-563)
TooDissimilar(n, dsum) == n >= 2 /\ dsum > MAX_SELF_CONSISTENCY * Pairs(n)

\* the quality gates without the self-consistency gate
PassesGatesVarianceOnly(n, var, dsum) == ~TooNoisy(n, var)

\* the quality gates of _check_candidate
PassesGates(n, var, dsum) == ~TooNoisy(n, var) /\ ~TooDissimilar(n, dsum)

\* the candidate is created whether or not the file exists
MayCreateAlways(n, exists) == n >= min_samples

\* the tests before the gates (lines 540-545): enough samples, no file yet
MayCreate(n, exists) == n >= min_samples /\ ~exists

\* add_sample up to the call of _check_candidate (lines 512-530): the
\* embedding and its metadata are saved
AddSample(w, e) ==
  /\ kpc[w] = "idle"
  /\ Size(cluster) < MaxSamples
  /\ cluster' = [cluster EXCEPT ![e] = @ + 1]
  /\ kexisted' = [kexisted EXCEPT ![w] = cand.status # "none"]
  /\ kpc' = [kpc EXCEPT ![w] = "check"]
  /\ UNCHANGED <<cand, kplan, notTrack>>

\* _check_candidate up to the write (lines 534-585)
CheckCandidate(w) ==
  /\ kpc[w] = "check"
  /\ LET n == Size(cluster)
         var == VarianceTimes(cluster)
         dsum == DistanceSum(cluster)
     IN IF MayCreate(n, cand.status # "none") /\ PassesGates(n, var, dsum)
          THEN /\ kplan' = [kplan EXCEPT ![w] =
                              [status |-> "pending_review", num_samples |-> n,
                               variance |-> var, self_consistency |-> dsum]]
               /\ kpc' = [kpc EXCEPT ![w] = "write"]
          ELSE /\ kpc' = [kpc EXCEPT ![w] = "idle"]
               /\ UNCHANGED kplan
  /\ UNCHANGED <<cluster, cand, kexisted, notTrack>>

\* candidate_file.write_text (lines 587-589)
WriteCandidate(w) ==
  /\ kpc[w] = "write"
  /\ cand' = kplan[w]
  /\ kplan' = [kplan EXCEPT ![w] = NoCandidate]
  /\ kpc' = [kpc EXCEPT ![w] = "idle"]
  /\ UNCHANGED <<cluster, kexisted, notTrack>>

\* approve_candidate (unknown_speaker_tracker.py lines 163-238): whatever
\* the status of the file
ApproveCandidate ==
  /\ cand.status # "none"
  /\ cand' = [cand EXCEPT !.status = "approved"]
  /\ UNCHANGED <<cluster, kpc, kplan, kexisted, notTrack>>

\* reject_candidate (unknown_speaker_tracker.py lines 240-254)
RejectCandidate ==
  /\ cand.status # "none"
  /\ cand' = [cand EXCEPT !.status = "rejected"]
  /\ UNCHANGED <<cluster, kpc, kplan, kexisted, notTrack>>

\* prune (lines 628-686): a cluster with fewer than min_samples files, none
\* of them newer than max_age_days, is removed
Prune ==
  /\ Size(cluster) > 0 /\ Size(cluster) < PRUNE_MIN_SAMPLES
  /\ cluster' = [e \in TrackEmbs |-> 0]
  /\ UNCHANGED <<cand, kpc, kplan, kexisted, notTrack>>

NextTrack ==
  \/ \E w \in Workers, e \in TrackEmbs : AddSample(w, e)
  \/ \E w \in Workers : CheckCandidate(w)
  \/ \E w \in Workers : WriteCandidate(w)
  \/ ApproveCandidate
  \/ RejectCandidate
  \/ Prune

SpecTrack == InitOf("track") /\ [][NextTrack]_vars

\* C26: every candidate file with status pending_review was created from a
\* cluster that at promotion time had at least min_samples (10) samples,
\* variance <= max_variance and self-consistency <= 0.15.
C26_PendingCandidatePassedGates ==
  cand.status = "pending_review" =>
    /\ cand.num_samples >= min_samples
    /\ cand.variance <= max_variance * Dims * cand.num_samples * cand.num_samples
    /\ cand.self_consistency <= MAX_SELF_CONSISTENCY * Pairs(cand.num_samples)

\* a candidate awaits review whose cluster holds embeddings of different
\* directions
C26_Witness ==
  cand.status = "pending_review" /\ cand.self_consistency > 0

\* thread w's call of add_sample writes the candidate file in this step
WritesCandidate(w) == kpc[w] = "write" /\ kpc'[w] = "idle"

\* C27: once a candidate file exists for a cluster, whatever its status, no
\* later add_sample on that cluster creates a new candidate or overwrites
\* the file: a rejected cluster is never promoted again.
C27_NoSecondPromotion ==
  [][\A w \in Workers :
       /\ WritesCandidate(w) => ~kexisted[w]
       /\ (kexisted[w] /\ kpc[w] # "idle" /\ kpc'[w] # kpc[w]) => cand' = cand]_vars

\* a sample was added to a cluster whose candidate has been rejected
C27_Witness ==
  \E w \in Workers :
    cand.status = "rejected" /\ kexisted[w] /\ kpc[w] = "idle"
      /\ Size(cluster) > cand.num_samples

\* ---- identify_all_speakers ------------------------------------------------
\* One transcript and its audio.  A segment is its diarization label ("" when
\* it has none), its length in half seconds and its speaker_name.  The audio
\* gives every label one voice, or "none" when the encoder yields no
\* embedding for it.  identify_all_speakers is called on the transcript up to
\* MaxRuns times, as the retry loop does, each call on what the call before
\* returned, with the profiles, the switch and the encoder as they were.

\* the enrolled profiles: one embedding each, the threshold of a new profile
\* (label_speaker.py line 178)
Book ==
  [fred |-> [emb |-> "p0", threshold |-> 350],
   eve |-> [emb |-> "p2", threshold |-> 350]]

Speech == [speaker : Labels \cup {""}, halves : {1, 2}, name : {""}]
SpeechLists == UNION {[1..n -> Speech] : n \in 0..NumSegs}

\* the keys of speaker_segments (lines 777-784)
LabelsOf(segs) == {segs[j].speaker : j \in DOMAIN segs} \ {""}

\* total_duration (lines 797-798), in half seconds
TotalDuration(segs, l) ==
  SumF([j \in DOMAIN segs |->
          IF segs[j].speaker = l THEN segs[j].halves ELSE 0], DOMAIN segs)

\* extract_multi_segment_embedding (lines 255-293): only segments of at least
\* min_duration are used; the normalized mean of one voice is that voice
MultiSegmentEmbedding(segs, l, audio) ==
  IF \E j \in DOMAIN segs :
       segs[j].speaker = l /\ segs[j].halves >= min_duration
    THEN audio[l]
    ELSE "none"

\* the embedding that the loop gets for label l, "none" when the label is
\* skipped (lines 800-809)
EmbeddingOf(segs, l, audio) ==
  IF TotalDuration(segs, l) < MIN_SEGMENT_DURATION THEN "none"
  ELSE MultiSegmentEmbedding(segs, l, audio)

\* match_speaker (lines 296-327): the nearest profile, if nearer than its
\* threshold; "" for no match
match_speaker(e, profs) ==
  IF profs = {} THEN ""
  ELSE LET best == CHOOSE n \in profs :
                     \A m \in profs :
                       CosDist(e, Book[n].emb) <= CosDist(e, Book[m].emb)
       IN IF CosDist(e, Book[best].emb) < Book[best].threshold
            THEN best ELSE ""

\* the dict `identified` when the loop has ended (lines 811-817)
Identified(segs, in) ==
  [l \in Labels |->
     IF l \in LabelsOf(segs) /\ EmbeddingOf(segs, l, in.audio) # "none"
       THEN match_speaker(EmbeddingOf(segs, l, in.audio), in.profs)
       ELSE ""]

\* the labels handed to tracker.add_sample (lines 818-856)
Tracked(segs, in) ==
  {l \in LabelsOf(segs) :
     /\ EmbeddingOf(segs, l, in.audio) # "none"
     /\ match_speaker(EmbeddingOf(segs, l, in.audio), in.profs) = ""}

\* only the labels that were tracked are listed
UnidentifiedTracked(segs, in) == Tracked(segs, in)

\* the list `unidentified` (lines 868-870)
Unidentified(segs, in) ==
  {l \in LabelsOf(segs) : Identified(segs, in)[l] = ""}

\* the names are applied to the segments (lines 859-864)
Named(segs, in) ==
  [j \in DOMAIN segs |->
     IF segs[j].speaker # "" /\ Identified(segs, in)[segs[j].speaker] # ""
       THEN [segs[j] EXCEPT !.name = Identified(segs, in)[segs[j].speaker]]
       ELSE segs[j]]

\* what identify_all_speakers returns for the transcript data tr, label by
\* label
IdentifyAllSpeakers(tr, in) ==
  IF ~in.enabled THEN [tr EXCEPT !.status = "complete_no_speaker_id"]
  ELSE IF ~in.encoder THEN [tr EXCEPT !.status = "speaker_id_failed"]
  ELSE IF Len(tr.segs) = 0 \/ LabelsOf(tr.segs) = {} THEN tr
  ELSE [tr EXCEPT !.segs = Named(tr.segs, in),
                  !.block = TRUE,
                  !.identified = Identified(tr.segs, in),
                  !.unidentified = Unidentified(tr.segs, in),
                  !.status = "complete"]

\* the call reaches the loop over the labels
ReachesLoop(tr, in) ==
  in.enabled /\ in.encoder /\ Len(tr.segs) > 0 /\ LabelsOf(tr.segs) # {}

\* the samples that the call adds to the cluster of voice e: the cluster of
\* an unmatched embedding is the one _find_unknown_cluster returns (lines
\* 700-735), the nearest within 0.20, and else a new one; the voices are
\* farther than that from each other, so each has a cluster of its own
Added(tr, in, e) ==
  IF ReachesLoop(tr, in)
    THEN Cardinality({l \in Tracked(tr.segs, in) :
                        EmbeddingOf(tr.segs, l, in.audio) = e})
    ELSE 0

\* a cluster of n samples of the one embedding e
OneVoice(e, n) == [x \in TrackEmbs |-> IF x = e THEN n ELSE 0]

\* _check_candidate after each of the k calls of add_sample on a cluster of
\* n samples with (exists) or without a candidate file
Promotes(e, n, k, exists) ==
  \E i \in 1..k :
    /\ MayCreate(n + i, exists)
    /\ PassesGates(n + i, VarianceTimes(OneVoice(e, n + i)),
                   DistanceSum(OneVoice(e, n + i)))

\* a transcript arrives from the service: its segments, its audio, and the
\* deployment it is identified in; the tracker holds what earlier clips left
IdentifyLoad(segs, audio, profs, enabled, encoder, held) ==
  /\ ~iin.loaded
  /\ iin' = [loaded |-> TRUE, audio |-> audio, profs |-> profs,
             enabled |-> enabled, encoder |-> encoder]
  /\ itr' = [NoData EXCEPT !.status = "transcribed", !.segs = segs]
  /\ ucount' = held
  /\ UNCHANGED <<iruns, ifirst, ucand, notIdent>>

\* one call of identify_all_speakers, with its calls of tracker.add_sample
Identify ==
  /\ iin.loaded
  /\ iruns < MaxRuns
  /\ itr' = IdentifyAllSpeakers(itr, iin)
  /\ ucount' = [e \in IdentEmbs |-> ucount[e] + Added(itr, iin, e)]
  /\ ucand' = [e \in IdentEmbs |->
                 ucand[e] \/ Promotes(e, ucount[e], Added(itr, iin, e), ucand[e])]
  /\ iruns' = iruns + 1
  /\ ifirst' = IF iruns = 0
                 THEN [tr |-> itr', ucount |-> ucount', ucand |-> ucand']
                 ELSE ifirst
  /\ UNCHANGED <<iin, notIdent>>

\* the tracker is empty, or every cluster is two samples short of
\* min_samples
Holdings == {[e \in IdentEmbs |-> n] : n \in {0, min_samples - 2}}

IdentifyArrives ==
  /\ ~iin.loaded
  /\ \E segs \in SpeechLists, audio \in [Labels -> IdentEmbs \cup {"none"}],
        profs \in SUBSET Names, enabled \in BOOLEAN, encoder \in BOOLEAN,
        held \in Holdings :
       IdentifyLoad(segs, audio, profs, enabled, encoder, held)

NextIdentify ==
  \/ IdentifyArrives
  \/ Identify

SpecIdentify == InitOf("identify") /\ [][NextIdentify]_vars

\* C28: after identification has run to completion on a transcript
\* (pipeline_status complete, with a speaker_identification block), the keys
\* of `identified` and the list `unidentified` are disjoint and together are
\* the set of the speaker labels that occur in the transcript's segments.
C28_LabelsPartitioned ==
  (itr.status = "complete" /\ itr.block) =>
    LET keys == {l \in Labels : itr.identified[l] # ""}
    IN /\ keys \cap itr.unidentified = {}
       /\ keys \cup itr.unidentified = LabelsOf(itr.segs)

\* identification has completed on a transcript with an identified label
\* and with a label that was skipped for want of audio
C28_Witness ==
  /\ itr.status = "complete" /\ itr.block /\ iruns > 0
  /\ \E l \in Labels : itr.identified[l] # ""
  /\ \E l \in itr.unidentified : EmbeddingOf(itr.segs, l, iin.audio) = "none"

\* C29: identify is idempotent: a second run on the same audio and
\* transcript with the profiles unchanged gives the result of the first run
\* (identified, unidentified, every speaker_name, pipeline_status) and makes
\* no further change to the unknown-speaker clusters.
C29_IdentifyIdempotent ==
  iruns >= 2 =>
    /\ itr = ifirst.tr
    /\ ucount = ifirst.ucount
    /\ ucand = ifirst.ucand

\* the part of it that holds: the transcript of the second run is that of
\* the first
IdentifyIdempotentOnTranscript == iruns >= 2 => itr = ifirst.tr

\* the second run made a candidate of a cluster that the first left short of
\* min_samples
SecondRunPromotes ==
  iruns >= 2 /\ \E e \in IdentEmbs : ucand[e] /\ ~ifirst.ucand[e]

\* ---- the profile merge: update_profile ------------------------------------
\* update_profile concatenates the embeddings of the profile file and the
\* new ones and deduplicates the list.  Two orderings of one collection are
\* merged side by side, each into a profile that is new or holds a prefix of
\* the list with the threshold of a new profile.

\* three embeddings of one voice: p0 and p1 are 0.04 apart, p1 and p2 0.064,
\* p0 and p2 0.2
MergeEmbs == {"p0", "p1", "p2"}
EmbLists == UNION {[1..n -> MergeEmbs] : n \in 0..MaxEmbs}

Range(s) == {s[i] : i \in DOMAIN s}
\* the bag of the sequence s holds as many of e
Count(s, e) == Cardinality({i \in DOMAIN s : s[i] = e})
\* t is an ordering of the collection s
Reordered(s, t) ==
  Len(s) = Len(t) /\ \A e \in MergeEmbs : Count(s, e) = Count(t, e)

\* is_dup (lines 437-444): within the threshold of one already kept
IsDup(emb, unique) ==
  \E i \in DOMAIN unique : CosDist(emb, unique[i]) < dedup_threshold

\* the loop of deduplicate_embeddings (lines 436-446): `unique` so far and
\* the embeddings to come
RECURSIVE DedupLoop(_, _)
DedupLoop(unique, rest) ==
  IF rest = <<>> THEN unique
  ELSE DedupLoop(IF IsDup(Head(rest), unique)
                   THEN unique ELSE Append(unique, Head(rest)),
                 Tail(rest))

\* deduplicate_embeddings (lines 422-450)
deduplicate_embeddings(embeddings) ==
  IF Len(embeddings) <= 1 THEN embeddings
  ELSE DedupLoop(<<embeddings[1]>>, Tail(embeddings))

\* compute_self_consistency (lines 453-481): the mean of the pairwise
\* distances, in ten-thousandths as update_profile rounds it; -1 for None
compute_self_consistency(embeddings) ==
  LET n == Len(embeddings)
      pairs == {p \in (1..n) \X (1..n) : p[1] < p[2]}
  IN IF n < 2 THEN -1
     ELSE (10 * SumF([p \in pairs |-> CosDist(embeddings[p[1]], embeddings[p[2]])],
                     pairs)) \div Cardinality(pairs)

\* auto_threshold (lines 484-497) of a consistency that is not None: three
\* times the consistency, clamped to [0.20, 0.50] and rounded to hundredths;
\* in thousandths
auto_threshold(consistency) ==
  LET t == 3 * consistency
      clamped == IF t < 2000 THEN 2000 ELSE IF t > 5000 THEN 5000 ELSE t
  IN ((clamped + 50) \div 100) * 10

\* the profile that update_profile writes (label_speaker.py lines 165-196)
update_profile(all_embeddings) ==
  LET merged == deduplicate_embeddings(all_embeddings)
      consistency == compute_self_consistency(merged)
  IN [embeddings |-> merged,
      selfConsistency |-> consistency,
      threshold |-> IF consistency # -1 THEN auto_threshold(consistency)
                    ELSE 350]

\* a collection of embeddings is to be merged, in two orders
MergeDraw(a, b) ==
  /\ mpc = "idle"
  /\ Reordered(a, b)
  /\ mall' = <<a, b>>
  /\ mpc' = "drawn"
  /\ UNCHANGED <<mout, notMerge>>

\* update_profile on each of the two
UpdateProfile ==
  /\ mpc = "drawn"
  /\ mout' = <<update_profile(mall[1]), update_profile(mall[2])>>
  /\ mpc' = "merged"
  /\ UNCHANGED <<mall, notMerge>>

NextMerge ==
  \/ \E a \in EmbLists, b \in EmbLists : MergeDraw(a, b)
  \/ UpdateProfile

SpecMerge == InitOf("merge") /\ [][NextMerge]_vars

\* C30: profile merge is order-independent: for every two orderings of the
\* same collection of existing and new embeddings, merging with
\* deduplication at cosine distance 0.05 yields the same set of retained
\* embeddings, and hence the same self-consistency and threshold.
C30_MergeOrderIndependent ==
  mpc = "merged" =>
    /\ Range(mout[1].embeddings) = Range(mout[2].embeddings)
    /\ mout[1].selfConsistency = mout[2].selfConsistency
    /\ mout[1].threshold = mout[2].threshold

\* what holds of the merge whatever the order: the retained embeddings are
\* at least the threshold apart, and every embedding of the collection is
\* within the threshold of a retained one
MergedApartAndCovering ==
  mpc = "merged" =>
    \A k \in 1..2 :
      LET merged == mout[k].embeddings
      IN /\ \A i, j \in DOMAIN merged :
              i # j => CosDist(merged[i], merged[j]) >= dedup_threshold
         /\ \A e \in Range(mall[k]) :
              \E i \in DOMAIN merged : CosDist(e, merged[i]) < dedup_threshold

\* the two orders of one collection give profiles with different thresholds
ThresholdDependsOnOrder ==
  mpc = "merged" /\ mout[1].threshold # mout[2].threshold

\* ---- the norms of the embeddings in a profile file ------------------------
\* The profile file of one speaker and its three writers: the /label-speaker
\* handler of app.py, update_profile of label_speaker.py and
\* approve_candidate of unknown_speaker_tracker.py.  The encoder returns
\* embeddings of any norm (encode_batch does not normalize).

\* the norm 1.0 on the scale of Vec
UnitNorm == 25
\* what extract_embedding may return
RawEmbs == {"e0", "loud", "p0", "p1", "p2"}
RawLists == UNION {[1..n -> RawEmbs] : n \in 1..MaxEmbs}

\* emb / norm when norm > 0 (app.py lines 393-396, speaker_verify.py lines
\* 568-571)
Normalized(e) ==
  IF Vec[e].n > 0
    THEN CHOOSE u \in RawEmbs :
           /\ Vec[u].n = UnitNorm
           /\ Vec[u].x * Vec[e].n = Vec[e].x * UnitNorm
           /\ Vec[u].y * Vec[e].n = Vec[e].y * UnitNorm
    ELSE e

\* the L2 norm is within [0.9, 1.1]
NormInRange(e) ==
  10 * Vec[e].n >= 9 * UnitNorm /\ 10 * Vec[e].n <= 11 * UnitNorm

\* _handle_label_speaker (app.py lines 361-418): the new embeddings are
\* normalized, the ones in the file are taken as they are
HandleLabelSpeaker(new) ==
  /\ Len(nprof) + Len(new) <= MaxEmbs
  /\ nprof' = deduplicate_embeddings(
                nprof \o [i \in DOMAIN new |-> Normalized(new[i])])
  /\ nlast' = "handler"
  /\ UNCHANGED <<ncand, notNorm>>

\* main and update_profile of label_speaker.py (lines 139-206): the
\* embeddings go into the file as extract_embedding returned them
LabelSpeakerScript(new) ==
  /\ Len(nprof) + Len(new) <= MaxEmbs
  /\ nprof' = update_profile(nprof \o new).embeddings
  /\ nlast' = "script"
  /\ UNCHANGED <<ncand, notNorm>>

\* _check_candidate (speaker_verify.py lines 567-586): the mean of a cluster
\* that points the way of e, normalized
CreateCandidate(e) ==
  /\ ncand = "none"
  /\ ncand' = Normalized(e)
  /\ UNCHANGED <<nprof, nlast, notNorm>>

\* approve_candidate (unknown_speaker_tracker.py lines 196-224): the profile
\* file is written anew with the one embedding, normalized if its norm is
\* above 1.01
ApproveToProfile ==
  /\ ncand # "none"
  /\ nprof' = <<IF 100 * Vec[ncand].n > 101 * UnitNorm
                  THEN Normalized(ncand) ELSE ncand>>
  /\ nlast' = "approve"
  /\ UNCHANGED <<ncand, notNorm>>

NextNorm ==
  \/ \E new \in RawLists : HandleLabelSpeaker(new)
  \/ \E new \in RawLists : LabelSpeakerScript(new)
  \/ \E e \in RawEmbs : CreateCandidate(e)
  \/ ApproveToProfile

SpecNorm == InitOf("norm") /\ [][NextNorm]_vars

\* C31: every embedding that a profile writer (the /label-speaker handler,
\* update_profile of label_speaker, candidate approval) writes to a profile
\* file has L2 norm within [0.9, 1.1].
C31_ProfileNormsInRange ==
  \A i \in DOMAIN nprof : NormInRange(nprof[i])

\* what holds: the file that approve_candidate writes from a candidate of
\* _check_candidate is in range
ApprovedNormsInRange ==
  nlast = "approve" => \A i \in DOMAIN nprof : NormInRange(nprof[i])

\* what holds: the handler adds no embedding out of range to the file
HandlerAddsInRange ==
  [][nlast' = "handler" =>
       \A i \in DOMAIN nprof' :
         NormInRange(nprof'[i]) \/ \E j \in DOMAIN nprof : nprof[j] = nprof'[i]]_vars

\* the handler has written back an embedding out of range that was in the
\* file
HandlerKeepsOutOfRange ==
  nlast = "handler" /\ \E i \in DOMAIN nprof : ~NormInRange(nprof[i])

\* ---- the profile store: writers and _load_profiles -------------------------
\* The profile file of one speaker, its writers and the threads that call
\* _load_profiles (the worker and retry threads through match_speaker, the
\* command path through verify_speaker_from_file, the handler with
\* force_reload).  Nothing locks the directory or the globals.

\* the writer's steps make the calls in flight unstable
Touched == [t \in Workers |-> FALSE]

\* tmp.write_text begins (app.py line 415, label_speaker.py line 200): the
\* temp file is there with part of its text
WriterTmpOpen ==
  /\ swriter = "idle" /\ swrites + 1 < MaxWrites
  /\ stmp' = "partial"
  /\ smtime' = [smtime EXCEPT !.t = swrites + 1]
  /\ swrites' = swrites + 1
  /\ swriter' = "tmp"
  /\ sstable' = Touched
  /\ UNCHANGED <<sfile, sprof, sprofmtime, sloaded, spc, scur, stodo, ssaw,
                 sret, notStore>>

\* write_text has written all
WriterTmpClose ==
  /\ swriter = "tmp"
  /\ stmp' = "whole"
  /\ smtime' = [smtime EXCEPT !.t = swrites + 1]
  /\ swrites' = swrites + 1
  /\ swriter' = "written"
  /\ sstable' = Touched
  /\ UNCHANGED <<sfile, sprof, sprofmtime, sloaded, spc, scur, stodo, ssaw,
                 sret, notStore>>

\* tmp.rename(profile_file) (app.py line 418, label_speaker.py line 201)
WriterRename ==
  /\ swriter = "written"
  /\ sfile' = "whole"
  /\ stmp' = "absent"
  /\ smtime' = [f |-> smtime.t, t |-> 0]
  /\ swriter' = "idle"
  /\ sstable' = Touched
  /\ UNCHANGED <<swrites, sprof, sprofmtime, sloaded, spc, scur, stodo, ssaw,
                 sret, notStore>>

\* approve_candidate: open(profile_path, 'w') (unknown_speaker_tracker.py
\* line 223) truncates the profile file itself
ApproveOpen ==
  /\ swriter = "idle" /\ swrites + 1 < MaxWrites
  /\ sfile' = "partial"
  /\ smtime' = [smtime EXCEPT !.f = swrites + 1]
  /\ swrites' = swrites + 1
  /\ swriter' = "approve"
  /\ sstable' = Touched
  /\ UNCHANGED <<stmp, sprof, sprofmtime, sloaded, spc, scur, stodo, ssaw,
                 sret, notStore>>

\* json.dump has written all and the file is closed (line 224)
ApproveClose ==
  /\ swriter = "approve"
  /\ sfile' = "whole"
  /\ smtime' = [smtime EXCEPT !.f = swrites + 1]
  /\ swrites' = swrites + 1
  /\ swriter' = "idle"
  /\ sstable' = Touched
  /\ UNCHANGED <<stmp, sprof, sprofmtime, sloaded, spc, scur, stodo, ssaw,
                 sret, notStore>>

\* _load_profiles up to the test of line 178: the listing with the mtimes
\* (glob("*.json") of pathlib lists .tmp_<name>.json as well), and the
\* return of _profiles when nothing has changed
LoadStat(t, force) ==
  /\ spc[t] = "idle"
  /\ scur' = [scur EXCEPT ![t] = smtime]
  /\ ssaw' = [ssaw EXCEPT ![t] = "none"]
  /\ IF sloaded /\ ~force /\ sprofmtime = smtime
       THEN /\ sret' = [sret EXCEPT ![t] =
                          [returned |-> TRUE, map |-> sprof,
                           stable |-> sfile = "whole" /\ swriter = "idle"]]
            /\ UNCHANGED <<spc, sstable>>
       ELSE /\ spc' = [spc EXCEPT ![t] = "reset"]
            /\ sret' = [sret EXCEPT ![t] = NoReturn]
            /\ sstable' = [sstable EXCEPT ![t] =
                             sfile = "whole" /\ swriter = "idle"]
  /\ UNCHANGED <<sfile, stmp, smtime, swrites, swriter, sprof, sprofmtime,
                 sloaded, stodo, notStore>>

\* lines 182-183: _profiles = {} and _profiles_mtime = current_files
LoadReset(t) ==
  /\ spc[t] = "reset"
  /\ sprof' = {}
  /\ sprofmtime' = scur[t]
  /\ spc' = [spc EXCEPT ![t] = "glob"]
  /\ UNCHANGED <<sfile, stmp, smtime, swrites, swriter, sloaded, scur, stodo,
                 ssaw, sret, sstable, notStore>>

\* line 185: the second listing
LoadGlob(t) ==
  /\ spc[t] = "glob"
  /\ stodo' = [stodo EXCEPT ![t] =
                 {x \in {"f", "t"} :
                    IF x = "f" THEN sfile # "absent" ELSE stmp # "absent"}]
  /\ spc' = [spc EXCEPT ![t] = "read"]
  /\ UNCHANGED <<sfile, stmp, smtime, swrites, swriter, sprof, sprofmtime,
                 sloaded, scur, ssaw, sret, sstable, notStore>>

\* lines 186-214: one file is read; a file that is gone or does not parse
\* raises, which is logged; a whole one is entered under its "name"
LoadRead(t, x) ==
  /\ spc[t] = "read" /\ x \in stodo[t]
  /\ LET state == IF x = "f" THEN sfile ELSE stmp
     IN /\ sprof' = IF state = "whole" THEN sprof \cup {"fred"} ELSE sprof
        /\ ssaw' = IF state = "partial" THEN [ssaw EXCEPT ![t] = x] ELSE ssaw
  /\ stodo' = [stodo EXCEPT ![t] = @ \ {x}]
  /\ UNCHANGED <<sfile, stmp, smtime, swrites, swriter, sprofmtime, sloaded,
                 spc, scur, sret, sstable, notStore>>

\* lines 215-220: _loaded = True and the return of _profiles
LoadReturn(t) ==
  /\ spc[t] = "read" /\ stodo[t] = {}
  /\ sloaded' = TRUE
  /\ sret' = [sret EXCEPT ![t] =
                [returned |-> TRUE, map |-> sprof, stable |-> sstable[t]]]
  /\ spc' = [spc EXCEPT ![t] = "idle"]
  /\ UNCHANGED <<sfile, stmp, smtime, swrites, swriter, sprof, sprofmtime,
                 scur, stodo, ssaw, sstable, notStore>>

NextStore ==
  \/ WriterTmpOpen
  \/ WriterTmpClose
  \/ WriterRename
  \/ ApproveOpen
  \/ ApproveClose
  \/ \E t \in Workers, force \in BOOLEAN : LoadStat(t, force)
  \/ \E t \in Workers : LoadReset(t)
  \/ \E t \in Workers : LoadGlob(t)
  \/ \E t \in Workers, x \in {"f", "t"} : LoadRead(t, x)
  \/ \E t \in Workers : LoadReturn(t)

SpecStore == InitOf("store") /\ [][NextStore]_vars

\* C32: for every interleaving of a profile load with a profile write
\* (label-speaker update or candidate approval), the reader never observes a
\* partially written profile file: every profile write replaces the whole
\* file through a temp file and a rename.
C32_NoPartialProfileRead ==
  /\ \A t \in Workers : ssaw[t] = "none"
  /\ sfile # "partial"

\* what holds: the profile file itself is half-written only under
\* approve_candidate
PartialOnlyUnderApproval == sfile = "partial" => swriter = "approve"

\* a reader has read the temp file of a temp-and-rename writer half-written
ReadsPartialTempFile == \E t \in Workers : ssaw[t] = "t"

\* C40: every call to the profile loader returns a map that contains every
\* valid profile present on disk, also when another thread is reloading the
\* profiles at the same time: while enrolled profiles exist, no caller
\* observes an empty or partially filled profile map.
C40_LoaderReturnsAllProfiles ==
  \A t \in Workers :
    (sret[t].returned /\ sret[t].stable) => "fred" \in sret[t].map

\* what holds: with every thread out of _load_profiles, the writer at rest
\* and _profiles_mtime up to date, _profiles holds the profile on disk
QuiescentMapComplete ==
  (/\ \A t \in Workers : spc[t] = "idle"
   /\ swriter = "idle" /\ sfile = "whole"
   /\ sloaded /\ sprofmtime = smtime)
  => "fred" \in sprof

\* ---- the duration gate ------------------------------------------------------
\* C33: the duration gate transcribes a clip exactly when its WAV duration
\* is >= min_transcribe_seconds: a clip of exactly min_transcribe_seconds is
\* uploaded and transcribed, and any shorter clip gets a transcript with
\* pipeline_status skipped_too_short and empty segments and is never
\* uploaded.
C33_DurationGate ==
  [][\A c \in Clips :
       /\ (wpc'[c] = "poll" /\ wpc[c] # "poll") =>
            wavDur[c] >= MIN_TRANSCRIBE_SECONDS
       /\ (wpc[c] = "gate" /\ wpc'[c] # "gate" /\ inbox[c]) =>
            IF wavDur[c] >= MIN_TRANSCRIBE_SECONDS
              THEN wpc'[c] = "upload" /\ done'[c] = done[c]
              ELSE /\ wpc'[c] = "end"
                   /\ done'[c].status = "skipped_too_short"
                   /\ done'[c].segs = {}]_vars

\* a clip of exactly MIN_TRANSCRIBE_SECONDS has been uploaded and its
\* transcript is being awaited
C33_Witness ==
  \E c \in Clips :
    wavDur[c] = MIN_TRANSCRIBE_SECONDS /\ inbox[c] /\ wpc[c] = "poll"

\* ---- the audio a label needs for an embedding -------------------------------
\* the labels of the identified transcript for which the encoder can give an
\* embedding
Audible == {l \in LabelsOf(itr.segs) : iin.audio[l] # "none"}

\* C34: for every diarized label and every way its audio is divided into
\* segments, identify computes an embedding for the label exactly when the
\* label's attributed audio totals at least 1.0 s: a label totalling exactly
\* 1.0 s produces an embedding and a label totalling less does not.
C34_EmbeddingIffOneSecond ==
  (iruns > 0 /\ itr.status = "complete") =>
    \A l \in Audible :
      EmbeddingOf(itr.segs, l, iin.audio) # "none"
        <=> TotalDuration(itr.segs, l) >= MIN_SEGMENT_DURATION

\* what holds: an embedding is computed exactly when one segment of the
\* label is at least 1.0 s long
EmbeddingIffLongSegment ==
  (iruns > 0 /\ itr.status = "complete") =>
    \A l \in Audible :
      EmbeddingOf(itr.segs, l, iin.audio) # "none"
        <=> \E j \in DOMAIN itr.segs :
              itr.segs[j].speaker = l /\ itr.segs[j].halves >= min_duration

\* identification has completed on a label of exactly 1.0 s in two segments
\* of 0.5 s, which is listed as unidentified and was not handed to the
\* tracker
SplitSecondUntracked ==
  /\ iruns > 0 /\ itr.status = "complete"
  /\ \E l \in Audible :
       /\ TotalDuration(itr.segs, l) = MIN_SEGMENT_DURATION
       /\ l \in itr.unidentified
       /\ l \notin Tracked(itr.segs, iin)

\* ---- conversation stitcher --------------------------------------------------
\* The transcripts of one day directory, one per timestamp; the conversation
\* id conv-YYYYMMDD-HHMMSS of a group is the timestamp of its first
\* transcript.
SpeakerNames == {"fred", "Unknown"}
Lower == [n \in SpeakerNames |-> IF n = "Unknown" THEN "unknown" ELSE n]
FileDurations == {0, 10}
GapChoices == {DEFAULT_GAP_SECONDS, DEFAULT_GAP_SECONDS + 1}

\* the named speakers of a transcript
get_speakers(transcript) ==
  {n \in transcript.speakers : Lower[n] \notin {"unknown", "none"}}

RECURSIVE SortByTimestamp(_)
SortByTimestamp(S) ==
  IF S = {} THEN <<>>
  ELSE LET first == CHOOSE t \in S : \A u \in S : t <= u
       IN  <<first>> \o SortByTimestamp(S \ {first})

\* the transcripts of the day, sorted by timestamp
load_day_transcripts(files) == SortByTimestamp(DOMAIN files)

\* conversationId <<>> stands for a transcript without the key
has_unstitched(files) ==
  \E t \in DOMAIN files : files[t].conversationId = <<>>

\* the test that puts the current transcript in the group of the previous
JoinsStrict(prev, curr, files, gap_seconds, speaker_gap_seconds) ==
  LET prev_end == prev + files[prev].duration
      gap == curr - prev_end
      shared == get_speakers(files[prev]) \cap get_speakers(files[curr])
      threshold == IF shared # {} THEN speaker_gap_seconds ELSE gap_seconds
  IN  gap < threshold
Joins(prev, curr, files, gap_seconds, speaker_gap_seconds) ==
  LET prev_end == prev + files[prev].duration
      gap == curr - prev_end
      shared == get_speakers(files[prev]) \cap get_speakers(files[curr])
      threshold == IF shared # {} THEN speaker_gap_seconds ELSE gap_seconds
  IN  gap <= threshold

RECURSIVE GroupLoop(_, _, _, _, _, _)
GroupLoop(groups, i, transcripts, files, gap_seconds, speaker_gap_seconds) ==
  IF i > Len(transcripts) THEN groups
  ELSE LET curr == transcripts[i]
           next ==
             IF Joins(transcripts[i - 1], curr, files,
                      gap_seconds, speaker_gap_seconds)
               THEN [groups EXCEPT ![Len(groups)] = Append(@, curr)]
               ELSE Append(groups, <<curr>>)
       IN  GroupLoop(next, i + 1, transcripts, files,
                     gap_seconds, speaker_gap_seconds)

group_conversations(transcripts, files, gap_seconds, speaker_gap_seconds) ==
  IF transcripts = <<>> THEN <<>>
  ELSE GroupLoop(<< <<transcripts[1]>> >>, 2, transcripts, files,
                 gap_seconds, speaker_gap_seconds)

make_conversation_id(first) == <<first>>

\* the day directory after stitch_day
stitch_day(files, gap_seconds, speaker_gap_seconds) ==
  LET groups == group_conversations(load_day_transcripts(files), files,
                                    gap_seconds, speaker_gap_seconds)
      GroupOf(t) ==
        CHOOSE k \in DOMAIN groups :
          \E j \in DOMAIN groups[k] : groups[k][j] = t
  IN  [t \in DOMAIN files |->
         [files[t] EXCEPT
            !.conversationId = make_conversation_id(groups[GroupOf(t)][1])]]

\* the orchestrator publishes a transcript into the day directory
TranscriptArrives(t, d, sp) ==
  /\ t \notin DOMAIN dfiles
  /\ Cardinality(DOMAIN dfiles) < MaxDay
  /\ dfiles' = [u \in DOMAIN dfiles \cup {t} |->
                  IF u = t
                    THEN [duration |-> d, speakers |-> sp,
                          conversationId |-> <<>>]
                    ELSE dfiles[u]]
  /\ UNCHANGED drun
  /\ UNCHANGED notStitch

\* one run of the stitcher over the day
StitchAllDays(incremental, gap_seconds, speaker_gap_seconds, dry_run) ==
  /\ load_day_transcripts(dfiles) # <<>>
  /\ IF (incremental /\ ~has_unstitched(dfiles)) \/ dry_run
       THEN UNCHANGED stitchVars
       ELSE /\ dfiles' = stitch_day(dfiles, gap_seconds, speaker_gap_seconds)
            /\ drun' = [gap_seconds |-> gap_seconds,
                        speaker_gap_seconds |-> speaker_gap_seconds]
  /\ UNCHANGED notStitch

NextStitch ==
  \/ \E t \in TimePoints, d \in FileDurations, sp \in SUBSET SpeakerNames :
       TranscriptArrives(t, d, sp)
  \/ \E incremental \in BOOLEAN, g \in GapChoices, dry_run \in BOOLEAN :
       StitchAllDays(incremental, g, DEFAULT_SPEAKER_GAP_SECONDS, dry_run)

SpecStitch == InitOf("stitch") /\ [][NextStitch]_vars

\* two transcripts of the day with no transcript between them
Adjacent(p, c) ==
  /\ p < c
  /\ \A u \in DOMAIN dfiles : ~(p < u /\ u < c)

NoSharedSpeaker(p, c) ==
  get_speakers(dfiles[p]) \cap get_speakers(dfiles[c]) = {}

GapBetween(p, c) == c - (p + dfiles[p].duration)

\* C35: when two time-adjacent transcripts share no named speaker, the
\* stitcher puts them in the same conversation exactly when the gap from the
\* end of the previous one (start + duration) to the start of the current one
\* is at most gap_seconds: a gap of exactly gap_seconds joins them, a gap one
\* second longer starts a new conversation.
C35_GapBoundary ==
  (drun # NoRun /\ ~has_unstitched(dfiles)) =>
    \A p \in DOMAIN dfiles, c \in DOMAIN dfiles :
      (Adjacent(p, c) /\ NoSharedSpeaker(p, c)) =>
        (dfiles[p].conversationId = dfiles[c].conversationId
           <=> GapBetween(p, c) <= drun.gap_seconds)

\* a stitched day in which a gap of exactly gap_seconds joined two
\* transcripts and a gap one second longer separated two
C35_Witness ==
  /\ drun # NoRun /\ ~has_unstitched(dfiles)
  /\ \E p \in DOMAIN dfiles, c \in DOMAIN dfiles :
       /\ Adjacent(p, c) /\ NoSharedSpeaker(p, c)
       /\ dfiles[p].speakers # {} /\ dfiles[c].speakers # {}
       /\ GapBetween(p, c) = drun.gap_seconds
       /\ dfiles[p].conversationId = dfiles[c].conversationId
  /\ \E p \in DOMAIN dfiles, c \in DOMAIN dfiles :
       /\ Adjacent(p, c) /\ NoSharedSpeaker(p, c)
       /\ GapBetween(p, c) = drun.gap_seconds + 1
       /\ dfiles[p].conversationId # dfiles[c].conversationId

\* ---- the job status derived from a transcript -------------------------------
\* The transcripts a done/ directory may hold: written by the pipeline worker
\* and the retry loop, or by an earlier version of the listener ("" stands
\* for a transcript without pipeline_status, "v1" for a value the
\* orchestrator does not know).
PipelineStatuses ==
  {"", "v1", "skipped_too_short", "transcribed", "speaker_id_failed",
   "complete", "complete_no_speaker_id"}
DoneTranscripts ==
  {[NoTranscript EXCEPT !.status = ps, !.aaiStatus = aai, !.unid = un,
                        !.segs = sg] :
     ps \in PipelineStatuses, aai \in {"", "completed", "error"},
     un \in SUBSET Voices, sg \in SUBSET Voices}

\* scan_once loads a transcript of done/
TranscriptRead(tr) ==
  /\ qjob.status # "none" \/ qjob = NoDerived
  /\ qjob' = [data |-> tr, status |-> "none"]
  /\ UNCHANGED notStatus

\* build_job_entry derives the status
DetermineStatus ==
  /\ qjob # NoDerived /\ qjob.status = "none"
  /\ qjob' = [qjob EXCEPT !.status = determine_status(qjob.data)]
  /\ UNCHANGED notStatus

NextStatus ==
  \/ \E tr \in DoneTranscripts : TranscriptRead(tr)
  \/ DetermineStatus

SpecStatus == InitOf("status") /\ [][NextStatus]_vars

\* the status the table of job statuses gives for a transcript
TableStatus(tr) ==
  IF tr.status = "skipped_too_short" THEN "skipped"
  ELSE IF tr.status = "transcribed" THEN "speaker_id_pending"
  ELSE IF tr.status = "speaker_id_failed" THEN "speaker_id_failed"
  ELSE IF tr.status \in {"complete", "complete_no_speaker_id"}
    THEN (IF tr.unid # {} THEN "pending_curator" ELSE "complete")
  ELSE "processing"

\* C36: the orchestrator derives each job status from the transcript as the
\* table states: skipped_too_short gives skipped, transcribed gives
\* speaker_id_pending, speaker_id_failed gives speaker_id_failed, complete or
\* complete_no_speaker_id gives pending_curator when unidentified is
\* non-empty and complete when it is empty, and an empty or legacy
\* pipeline_status gives processing.
\* (a transcript that records an error of the transcription service is the
\* row "failed" of the table and is left aside).
C36_StatusFollowsTable ==
  (qjob.status # "none" /\ qjob.data.aaiStatus # "error") =>
    qjob.status = TableStatus(qjob.data)

\* what holds: the table is followed for the transcripts that carry a
\* pipeline_status or no segments
StatusFollowsTableForPipeline ==
  (/\ qjob.status # "none"
   /\ qjob.data.aaiStatus # "error"
   /\ qjob.data.status # "" \/ qjob.data.segs = {}) =>
    qjob.status = TableStatus(qjob.data)

\* a transcript without pipeline_status, with segments, came out complete
LegacyDerivedComplete ==
  /\ qjob.data.status = "" /\ qjob.data.segs # {}
  /\ qjob.data.aaiStatus = ""
  /\ qjob.status = "complete"

\* ---- the stamps of the stages transcribed and speaker_id -----------------------
\* the orchestrator has seen the transcript of the clip transcribed
SeenTranscribed(c) ==
  jobs[c].pipelineStatus \in
    {"transcribed", "complete", "complete_no_speaker_id", "speaker_id_failed"}

\* the orchestrator has seen the outcome of the speaker identification
SeenSpeakerId(c) ==
  jobs[c].pipelineStatus \in
    {"complete", "complete_no_speaker_id", "speaker_id_failed"}

\* C37: for every job whose transcript was produced by the pipeline worker,
\* the orchestrator sets stages.transcribed when it first sees the clip
\* transcribed and stages.speaker_id when it first sees pipeline_status in
\* {complete, complete_no_speaker_id, speaker_id_failed}; once set, neither
\* timestamp is overwritten by a later cycle.
C37_StageStampsSetOnce ==
  /\ [](\A c \in Clips :
          /\ SeenTranscribed(c) => IsSet(jobs[c].stages, "transcribed")
          /\ SeenSpeakerId(c) => IsSet(jobs[c].stages, "speaker_id"))
  /\ [][\A c \in Clips : \A name \in {"transcribed", "speaker_id"} :
          (IsSet(jobs[c].stages, name) /\ opc' # "started") =>
            jobs'[c].stages[name] = jobs[c].stages[name]]_vars

\* what holds: stages.transcribed is never set, in memory or in jobs.json
TranscribedNeverStamped ==
  \A c \in Clips :
    /\ ~IsSet(jobs[c].stages, "transcribed")
    /\ ~IsSet(jobsFile[c].stages, "transcribed")

\* what holds: stages.speaker_id is set as soon as the outcome is seen, and
\* kept by the later cycles of the same process
SpeakerIdStampedOnce ==
  /\ [](\A c \in Clips : SeenSpeakerId(c) => IsSet(jobs[c].stages, "speaker_id"))
  /\ [][\A c \in Clips :
          (IsSet(jobs[c].stages, "speaker_id") /\ opc' # "started") =>
            jobs'[c].stages["speaker_id"] = jobs[c].stages["speaker_id"]]_vars

\* the orchestrator has recorded the transcript that the worker wrote for a
\* clip it transcribed, in a cycle later than the one that stamped the stage
\* speaker_id, and the stage transcribed has no stamp
TranscribedSeenUnstamped ==
  \E c \in Clips :
    /\ SeenTranscribed(c)
    /\ done[c].status = jobs[c].pipelineStatus
    /\ IsSet(jobs[c].stages, "speaker_id")
    /\ jobs[c].stages["speaker_id"] < clock
    /\ opc = "idle"
    /\ ~IsSet(jobs[c].stages, "transcribed")

\* ---- the curator tree: sync_to_curator -----------------------------------------
\* The curator files of one day, in the active directory and in _pending/.
\* The tree is first written by sync-transcripts.py, which also publishes
\* transcripts with unidentified speakers; migrate-curator-backlog.py then
\* moves those to _pending/, and from then on the orchestrator publishes.

\* glob(time_prefix*.json) of a directory, kept to the files that reference
\* the audio file
Matches(dir, audio) ==
  {n \in DOMAIN dir : n[1] = SecondOf[audio] /\ dir[n].audioPath = audio}

\* write_text: the directory with the file written under the name
WriteFile(dir, name, file) ==
  [n \in DOMAIN dir \cup {name} |-> IF n = name THEN file ELSE dir[n]]

\* unlink
Unlink(dir, name) == [n \in DOMAIN dir \ {name} |-> dir[n]]

\* the name the collision counter arrives at
FreshName(dir, second) ==
  LET k == CHOOSE k \in 0..2 :
             /\ <<second, k>> \notin DOMAIN dir
             /\ \A j \in 0..(k - 1) : <<second, j>> \in DOMAIN dir
  IN  <<second, k>>

\* convert_and_save of sync-transcripts.py writes the curator file; unid:
\* speaker_identification.unidentified is non-empty
LegacySync(audio, unid) ==
  /\ ktree.phase = "legacy"
  /\ LET file == [audioPath |-> audio, unid |-> unid]
     IN  IF Matches(ktree.active, audio) # {}
           THEN \E n \in Matches(ktree.active, audio) :
                  ktree' = [ktree EXCEPT !.active = WriteFile(@, n, file)]
           ELSE ktree' =
                  [ktree EXCEPT
                     !.active =
                       WriteFile(@, FreshName(@, SecondOf[audio]), file)]
  /\ UNCHANGED notTree

\* migrate-curator-backlog.py moves every file with unidentified speakers to
\* _pending/, under the same relative path
Migrate ==
  /\ ktree.phase = "legacy"
  /\ LET moved == {n \in DOMAIN ktree.active : ktree.active[n].unid}
     IN  ktree' =
           [active |-> [n \in DOMAIN ktree.active \ moved |-> ktree.active[n]],
            pending |-> [n \in DOMAIN ktree.pending \cup moved |->
                           IF n \in moved THEN ktree.active[n]
                           ELSE ktree.pending[n]],
            phase |-> "orchestrator"]
  /\ UNCHANGED notTree

\* sync_to_curator(stem, data) for a transcript with text whose speakers are
\* all identified
SyncToCurator(audio) ==
  /\ ktree.phase = "orchestrator"
  /\ LET file == [audioPath |-> audio, unid |-> FALSE]
     IN  IF Matches(ktree.active, audio) # {}
           THEN \E n \in Matches(ktree.active, audio) :
                  ktree' = [ktree EXCEPT !.active = WriteFile(@, n, file)]
         ELSE IF Matches(ktree.pending, audio) # {}
           THEN \E n \in Matches(ktree.pending, audio) :
                  ktree' = [ktree EXCEPT !.pending = Unlink(@, n),
                                         !.active = WriteFile(@, n, file)]
         ELSE ktree' =
                [ktree EXCEPT
                   !.active =
                     WriteFile(@, FreshName(@, SecondOf[audio]), file)]
  /\ UNCHANGED notTree

NextTree ==
  \/ \E audio \in AudioFiles, unid \in BOOLEAN : LegacySync(audio, unid)
  \/ Migrate
  \/ \E audio \in AudioFiles : SyncToCurator(audio)

SpecTree == InitOf("tree") /\ [][NextTree]_vars

\* the curator files, active or pending, that reference the audio file
References(audio) ==
  {<<"active", n>> : n \in {m \in DOMAIN ktree.active :
                               ktree.active[m].audioPath = audio}}
    \cup {<<"pending", n>> : n \in {m \in DOMAIN ktree.pending :
                                      ktree.pending[m].audioPath = audio}}

AtMostOneReference ==
  \A audio \in AudioFiles : Cardinality(References(audio)) <= 1

\* no step replaces an active curator file by one that references another
\* audio file
NoForeignOverwrite ==
  \A n \in DOMAIN ktree.active \cap DOMAIN ktree'.active :
    ktree'.active[n].audioPath = ktree.active[n].audioPath

\* C38: after any sequence of publications and republications, each audio
\* filename is referenced by at most one curator file across the active day
\* directory and _pending/: a republication overwrites the clip's existing
\* curator file (or promotes its _pending/ file) instead of creating a
\* second one, and publishing a clip never overwrites a curator file that
\* references a different audio file.
C38_OneCuratorFilePerAudio ==
  []AtMostOneReference /\ [][NoForeignOverwrite]_vars

\* what holds: at most one curator file references an audio file
OneReferencePerAudio == AtMostOneReference

\* what holds: a publication overwrites no file of another clip unless it
\* promotes a file of _pending/
OverwriteOnlyByPromotion ==
  [][\A n \in DOMAIN ktree.active \cap DOMAIN ktree'.active :
       ktree'.active[n].audioPath # ktree.active[n].audioPath =>
         /\ n \in DOMAIN ktree.pending
         /\ ktree.pending[n].audioPath = ktree'.active[n].audioPath]_vars

\* a file of _pending/ has the name of an active file of another clip
PendingNameTaken ==
  \E n \in DOMAIN ktree.pending \cap DOMAIN ktree.active :
    ktree.active[n].audioPath # ktree.pending[n].audioPath

\* ---- a synced job in the later cycles -------------------------------------------
\* the transcript of the clip is left as it is by the step and its synced
\* marker is there before and after
AtRestSynced(c) == done'[c] = done[c] /\ marker[c] /\ marker'[c]

\* C39: once a job's status is curator_synced it stays curator_synced in the
\* orchestrator's manifest, in memory and in jobs.json, across all later
\* cycles for as long as its transcript is unchanged and its synced marker
\* exists.
C39_SyncedStaysSynced ==
  [][\A c \in Clips :
       AtRestSynced(c) =>
         /\ jobs[c].status = "curator_synced" =>
              jobs'[c].status = "curator_synced"
         /\ jobsFile[c].status = "curator_synced" =>
              jobsFile'[c].status = "curator_synced"]_vars

\* what holds: a synced job whose transcript and marker stay is complete or
\* curator_synced after every step, in memory and in jobs.json
SyncedStaysCompleteOrSynced ==
  [][\A c \in Clips :
       AtRestSynced(c) =>
         /\ jobs[c].status \in {"complete", "curator_synced"} =>
              jobs'[c].status \in {"complete", "curator_synced"}
         /\ jobsFile[c].status \in {"complete", "curator_synced"} =>
              jobsFile'[c].status \in {"complete", "curator_synced"}]_vars

\* between two cycles the job of a published clip, marker in place, is
\* complete in memory
SyncedJobTurnedComplete ==
  \E c \in Clips :
    /\ opc = "idle" /\ marker[c] /\ curator[c] # NoTranscript
    /\ jobs[c].status = "complete"
    /\ jobs[c].curatorPath

====
